---- MODULE Spec2Model ----
(***************************************************************************)
(* Workflow execution engine: graph validation and topological order       *)
(* (app/schemas/graph.py), run creation (app/engine/orchestrator.py), the  *)
(* run executor (app/engine/executor.py), the run log                      *)
(* (app/engine/logging.py), the run status, log and stream endpoints       *)
(* (app/server/api.py), the agent.react block                              *)
(* (app/blocks/std/agent_react.py) and the assistant                       *)
(* (app/services/assistant.py).                                            *)
(*                                                                         *)
(* Modelling conventions                                                   *)
(*  - Node ids are the numbers 1..k (strings in the code; only equality    *)
(*    and position in graph.nodes are used by the engine).                 *)
(*  - Autoincrement primary keys are positions in the table's sequence.    *)
(*  - datetime.utcnow() is a logical clock of the executor task that       *)
(*    advances with every stamp; 0 stands for NULL.                        *)
(*  - An exception of the infrastructure (database, serialisation) inside  *)
(*    the try body of execute_run is a nondeterministic outcome of the     *)
(*    step; the statements of the except handlers, which record the        *)
(*    failure, are taken to succeed.                                       *)
(*                                                                         *)
(* Specifications                                                          *)
(*  - Spec: one stored workflow, up to MaxRuns runs executing concurrently *)
(*  - SpecOneRun: one stored workflow of a larger graph, one run           *)
(*  - FairSpecOneRun: SpecOneRun with the executor task scheduled fairly   *)
(*  - SpecTopo: validation and ordering of a graph value                   *)
(*  - SpecRegistry: one run of a workflow with nodes of any type            *)
(*  - SpecUpdate: one run and one PUT /workflows/{id} of its workflow      *)
(*  - SpecWrite: POST /workflows, PUT /workflows/{id} and                  *)
(*    POST /validate-graph on one request body                             *)
(*  - SpecStream: one run and one GET /runs/{id}/stream request            *)
(*  - SpecPoll: one run and a client polling GET /runs/{id}/logs           *)
(*  - SpecAgent: one invocation of the agent.react block                   *)
(*  - SpecAssistant: concurrent calls of create_workflow_from_prompt       *)
(*  - SpecPersist: POST /workflows, PUT /workflows/{id} and the assistant  *)
(*    on one graph with agent tools                                        *)
(*  - SpecTrigger: triggers with payloads, runs executing concurrently     *)
(*  - SpecCache: calls of create_workflow_from_prompt on a filled cache    *)
(*  - SpecBlockLogs: SpecStream with blocks that write log entries         *)
(***************************************************************************)
EXTENDS Integers, Sequences, FiniteSets, TLC

\* ------------------------------------------------------------------ bounds
\* SpecOneRun: the stored graph has at most MaxNodes nodes and MaxEdges edges
MaxNodes == 3
MaxEdges == 1
\* Spec (concurrent runs): at most ConcNodes nodes, ConcEdges edges, MaxRuns runs
ConcNodes == 2
ConcEdges == 1
MaxRuns == 2
\* SpecTopo: the graph handed to the validator
TopoMaxNodes == 4
TopoMaxEdges == 2
\* SpecUpdate: the stored graph and the graph of the PUT request
UpdNodes == 2
UpdEdges == 1
\* SpecRegistry: the stored graph, whose nodes may be of an unregistered type
RegNodes == 2
RegEdges == 1
\* SpecWrite: the request body, either a graph of WriteNodes nodes and WriteEdges edges of
\* one type, or TypedNodes nodes of any type, an agent listing at most MaxTools tools
WriteNodes == 2
WriteEdges == 2
TypedNodes == 2
MaxTools == 1
\* graphs of the run a stream or a polling client reads
StreamNodes == 2
StreamEdges == 0
MaxBlockLogs == 1
\* the largest max_steps of an agent.react invocation
MaxSteps == 2
\* the calls of create_workflow_from_prompt, and the capacity of its cache (the code's
\* _ASSISTANT_LRU_CAPACITY is 64; scaled down so that entries are evicted)
MaxCalls == 3
LruCapacity == 2
\* SpecPersist: the nodes of the graph to be written and the tools an agent node lists
TrigNodes == 1
TrigEdges == 0

PersistNodes == 1
PersistTools == 2

\* --------------------------------------------------------------- constants
NoNode == 0
Null == 0

EdgeKinds == {"control", "tool"}
\* block types used in the modelled graphs: one ordinary block, one tool block
NodeTypes == {"start", "tool.calculator"}
ToolTypes == {"tool.calculator"}

VARIABLES
  workflows,   \* table workflows: sequence of graph_json values, id = position
  runs,        \* table runs: sequence of Run rows, id = position
  node_runs,   \* table node_runs, per run id: sequence of NodeRun rows in insertion order
  logs,        \* table logs: sequence of Log rows in insertion order
  tasks,       \* per run id: the local state of its execute_run background task
  invoked,     \* per run id: the nodes whose block was invoked, in order (history)
  raised,      \* per run id: the node whose block raised, or NoNode (history)
  tg,          \* input graph of the pure-function specification
  tres,        \* result of validating / ordering tg
  stream,      \* the event generator of one GET /runs/{id}/stream request
  poll,        \* one client of GET /runs/{id}/logs and what it has received
  agent,       \* one invocation of the agent.react block
  assistant    \* the prompt cache of the assistant and the response to one request

\* the state of the readers of a run, of an agent.react invocation and of the assistant,
\* which the executor never touches
ext_vars == <<stream, poll, agent, assistant>>

vars == <<workflows, runs, node_runs, logs, tasks, invoked, raised, tg, tres, ext_vars>>

RunIds == 1..MaxRuns

\* ------------------------------------------------------------ graph values
Range(s) == {s[i] : i \in DOMAIN s}

\* node lists of k nodes; the ids are 1..k in list order (ids are labels: every graph
\* with unique ids is such a graph up to renaming)
NodeLists(k, types) ==
  {[i \in 1..k |-> [id |-> i, type |-> t[i]]] : t \in [1..k -> types]}

\* an edge between two of the nodes 1..k, of either kind
EdgeValues(k) == [from : 1..k, to : 1..k, kind : EdgeKinds]

EmptyGraph == [nodes |-> <<>>, edges |-> <<>>]

NodeIds(g) == {g.nodes[i].id : i \in DOMAIN g.nodes}

\* ------------------------------------------------- Graph._toposort (Kahn)
\* seeded fault: the kind test inverted
IsToolEdgeInverted(e) == e.kind # "tool"

\* graph.py:52  getattr(e, "kind", "control") == "tool"
IsToolEdge(e) == e.kind = "tool"

ControlEdges(g) == SelectSeq(g.edges, LAMBDA e : ~IsToolEdge(e))

\* graph.py:49,54  children[e.from_node].append(e.to), in edge order
Children(g) ==
  [n \in NodeIds(g) |->
     LET es == SelectSeq(ControlEdges(g), LAMBDA e : e.from = n)
     IN  [i \in DOMAIN es |-> es[i].to]]

\* graph.py:50,55  indeg[e.to] += 1
Indeg(g) ==
  [n \in NodeIds(g) |->
     Cardinality({i \in DOMAIN ControlEdges(g) : ControlEdges(g)[i].to = n})]

\* graph.py:56  queue = [nid for nid, d in indeg.items() if d == 0]  (dict order = node list order)
InitialQueue(g) ==
  LET ids == [i \in DOMAIN g.nodes |-> g.nodes[i].id]
  IN  SelectSeq(ids, LAMBDA n : Indeg(g)[n] = 0)

\* graph.py:61-64  for c in children[nid]: indeg[c] -= 1; if indeg[c] == 0: queue.append(c)
RECURSIVE Relax(_, _, _)
Relax(cs, indeg, queue) ==
  IF cs = <<>> THEN [indeg |-> indeg, queue |-> queue]
  ELSE LET c == Head(cs)
           d == indeg[c] - 1
       IN  Relax(Tail(cs), [indeg EXCEPT ![c] = d],
                 IF d = 0 THEN Append(queue, c) ELSE queue)

\* graph.py:58-64  while queue: nid = queue.pop(0); order.append(nid); ...
RECURSIVE Kahn(_, _, _, _)
Kahn(children, indeg, queue, ord) ==
  IF queue = <<>> THEN ord
  ELSE LET nid == Head(queue)
           r == Relax(children[nid], indeg, Tail(queue))
       IN  Kahn(children, r.indeg, r.queue, Append(ord, nid))

\* seeded fault: the length of the order is not compared with the number of nodes
ToposortUnchecked(g) ==
  [ok |-> TRUE, order |-> Kahn(Children(g), Indeg(g), InitialQueue(g), <<>>)]

\* graph.py:48-67  ok = FALSE stands for ValueError("Graph contains a cycle")
Toposort(g) ==
  LET ord == Kahn(Children(g), Indeg(g), InitialQueue(g), <<>>)
  IN  [ok |-> Len(ord) = Len(g.nodes), order |-> ord]

\* graph.py:36-39  len(node_ids) != len(self.nodes) raises
UniqueNodeIds(g) == Cardinality(NodeIds(g)) = Len(g.nodes)

\* seeded fault: only the endpoints of control edges are looked at
EdgeEndpointsExistControlOnly(g) ==
  \A i \in DOMAIN g.edges :
    g.edges[i].kind # "tool" => (g.edges[i].from \in NodeIds(g) /\ g.edges[i].to \in NodeIds(g))

\* graph.py:41-43  every edge, of either kind: from and to are node ids
EdgeEndpointsExist(g) ==
  \A i \in DOMAIN g.edges : g.edges[i].from \in NodeIds(g) /\ g.edges[i].to \in NodeIds(g)

\* graph.py:34-46  Graph._validate_graph: unique ids, edge endpoints exist, acyclic
ValidGraph(g) ==
  /\ UniqueNodeIds(g)
  /\ EdgeEndpointsExist(g)
  /\ Toposort(g).ok

NodeOf(g, n) == CHOOSE x \in Range(g.nodes) : x.id = n

\* seeded fault: no node is taken for a tool node
IsToolNodeNever(node) == FALSE

\* executor.py:68,  str(node.type).startswith("tool.")
IsToolNode(node) == node.type \in ToolTypes


\* ------------------------------------------------------- block registry
\* a type no block registers (tests/test_blocks_and_executors.py:163 "does.not.exist")
UnknownType == "does.not.exist"

\* blocks/std/agent_react.py:37
AgentType == "agent.react"

\* registry.py:7,10-14  _CLASS_REGISTRY: the registered types that occur in the modelled graphs
\* (blocks/std/start.py:15, blocks/executors/calculator.py:81, blocks/std/agent_react.py:37)
RegisteredTypes == {"start", "tool.calculator", AgentType}

\* api.py:107-118  is_tool_compatible: registered, and flagged tool_compatible or named tool.*
is_tool_compatible(type) == type \in RegisteredTypes /\ type \in ToolTypes

\* api.py:122-126  is_agent: the type begins with "agent." or the class has kind "agent"
is_agent(type) == type = AgentType

\* seeded fault: the type is not looked up
run_block_finds_any(type) == TRUE

\* registry.py:18-20  run_block: the class of the type is found (otherwise ValueError)
run_block_finds(type) == type \in RegisteredTypes


\* ------------------------------------------------------------------ tables
\* seeded fault: runs inserted as running
RunDefaultStatusRunning == "running"

\* models.py:40  Run.status default
RunDefaultStatus == "pending"

\* the trigger payloads a caller passes: none, the empty object, an object with data
NoPayload == "none"
EmptyPayload == "empty"
Payloads == {NoPayload, EmptyPayload, "data"}

\* seeded fault: the payload is not stored
StoredPayloadDropped(trigger_payload) == EmptyPayload

\* orchestrator.py:40  trigger_payload_json=trigger_payload or {}
StoredPayload(trigger_payload) ==
  IF trigger_payload \in {NoPayload, EmptyPayload} THEN EmptyPayload ELSE trigger_payload

\* orchestrator.py:39-43  _insert_run; the columns not given take their defaults (models.py:38-45)
NewRun(w, trigger_payload) ==
  [workflow_id |-> w, status |-> RunDefaultStatus, started_at |-> Null,
   finished_at |-> Null, outputs_null |-> TRUE, outputs_json |-> <<>>,
   trigger_payload_json |-> StoredPayload(trigger_payload)]

\* seeded fault: the id of the last row is handed out again
NextLogIdReused(ls) == IF ls = <<>> THEN 1 ELSE ls[Len(ls)].id

\* models.py:76  Log.id autoincrement
NextLogId(ls) == Len(ls) + 1

\* seeded fault: the row is written under the id of the first run
insert_log_first_run(ls, r, n, msg) ==
  Append(ls, [id |-> NextLogId(ls), run_id |-> 1, node_id |-> n, level |-> "info", message |-> msg])

\* logging.py:11-18  insert_log; the executor's logger passes no level, so level = "info"
insert_log(ls, r, n, msg) ==
  Append(ls, [id |-> NextLogId(ls), run_id |-> r, node_id |-> n, level |-> "info", message |-> msg])

\* executor.py:150-155  _mark_node_status(status="running")
mark_node_status(nrs, n, type, now) ==
  Append(nrs, [node_id |-> n, node_type |-> type, status |-> "running",
               started_at |-> now, finished_at |-> Null, has_output |-> FALSE, has_error |-> FALSE])

\* seeded fault: the update matches no row
persist_node_success_lost(nrs, n, now) == nrs

\* executor.py:158-165  _persist_node_success: UPDATE ... WHERE run_id AND node_id
persist_node_success(nrs, n, now) ==
  [i \in DOMAIN nrs |->
     IF nrs[i].node_id = n
     THEN [nrs[i] EXCEPT !.status = "succeeded", !.finished_at = now, !.has_output = TRUE]
     ELSE nrs[i]]

\* seeded fault: the failure is not written to the row
persist_node_error_lost(nrs, n, now) == nrs

\* executor.py:168-175  _persist_node_error: UPDATE ... WHERE run_id AND node_id
persist_node_error(nrs, n, now) ==
  [i \in DOMAIN nrs |->
     IF nrs[i].node_id = n
     THEN [nrs[i] EXCEPT !.status = "failed", !.finished_at = now, !.has_error = TRUE]
     ELSE nrs[i]]

\* executor.py:132-135  _mark_run_running
mark_run_running(rs, r, now) ==
  [rs EXCEPT ![r].status = "running", ![r].started_at = now]

\* executor.py:138-141  _mark_run_succeeded
mark_run_succeeded(rs, r, outs, now) ==
  [rs EXCEPT ![r].status = "succeeded", ![r].finished_at = now,
             ![r].outputs_null = FALSE, ![r].outputs_json = outs]

\* executor.py:144-147  _mark_run_failed
mark_run_failed(rs, r, outs, now) ==
  [rs EXCEPT ![r].status = "failed", ![r].finished_at = now,
             ![r].outputs_null = FALSE, ![r].outputs_json = outs]

\* ------------------------------------------------------- executor task state
\* pc: "idle" (no task), "dispatched" (background task added), "setup", "loop",
\*     "mark", "block", "finlog", "errlog", "except", "done", "crashed"
\* at_dispatch is a history field: the graph the workflow had when the Run row was
\* inserted (the code keeps no such value)
\* upstream is the upstream map of the input built for the node started last
\* payload is a history field too: the trigger payload the caller passed
IdleTask ==
  [pc |-> "idle", graph |-> EmptyGraph, order |-> <<>>, idx |-> 1,
   outputs |-> <<>>, upstream |-> <<>>, http |-> "none", clock |-> 1,
   at_dispatch |-> EmptyGraph, payload |-> NoPayload]

\* the node the loop of execute_run is at (executor.py:64-65)
CurNode(t) == NodeOf(t.graph, t.order[t.idx])

\* engine/graph.py:12-18  build_parent_child_maps: parents[e.to].append(e.from_node) for
\* every edge of the graph, whatever its kind
Parents(g) ==
  [n \in NodeIds(g) |-> {g.edges[i].from : i \in {j \in DOMAIN g.edges : g.edges[j].to = n}}]

\* executor.py:74  {pid: outputs[pid] for pid in parents_map.get(node.id, []) if pid in outputs}
upstream_outputs(t) ==
  [p \in Parents(t.graph)[CurNode(t).id] \cap DOMAIN t.outputs |-> t.outputs[p]]

\* seeded fault: the result is not stored
StoreOutputDropped(outs, n, result) == outs

\* executor.py:102  outputs[node.id] = result
StoreOutput(outs, n, result) ==
  [m \in DOMAIN outs \cup {n} |-> IF m = n THEN result ELSE outs[m]]

\* the value a block returns; the engine stores it without looking at it
BlockResults == {"out"}

\* the response to the request on tg: none yet, or the handler (op), whether it
\* succeeded (ok; FALSE is the 4xx response), and the order toposort computed
NoResponse == [set |-> FALSE, ok |-> FALSE, order |-> <<>>, op |-> "none"]

Response(op, ok, order) == [set |-> TRUE, ok |-> ok, order |-> order, op |-> op]

\* no stream request has been made
NoStream == [pc |-> "none", run |-> 0, last_id |-> 0, last_status |-> "none", events |-> <<>>]

\* the client has not polled yet. cursor is the after_id of its next request (NoCursor:
\* none is passed), received the ids of the entries of all responses so far, in order;
\* code, after and last are the status code, the after_id and the entry ids of the last
\* response, at_terminal whether the run was succeeded or failed when it was served
NoCursor == -1

NoPoll ==
  [run |-> 0, cursor |-> NoCursor, received |-> <<>>, code |-> "none", after |-> NoCursor,
   last |-> <<>>, at_terminal |-> FALSE]

NoReaders ==
  /\ stream = NoStream
  /\ poll = NoPoll

\* no agent.react block is running
NoAgent ==
  [pc |-> "none", prompt |-> "", tools |-> {}, sdk |-> FALSE, composio |-> FALSE,
   max_steps |-> 0, step |-> 1, asked |-> 0, replies |-> <<>>, transcript |-> <<>>,
   calls |-> <<>>, via |-> "none", final |-> "", trace |-> <<>>, error |-> ""]

\* a call of create_workflow_from_prompt that has not been made. pc: "idle", "generating"
\* (cache miss, the graph is being generated), "persisted" (row inserted, cache not yet
\* written), "done", "failed" (the call raised); id and cached are what it returned;
\* hit is whether the lookup found the key, inserted whether the call inserted a row;
\* after is a history field: the calls that had returned when this one was made
IdleCall ==
  [pc |-> "idle", prompt |-> <<>>, id |-> 0, cached |-> FALSE, hit |-> FALSE,
   inserted |-> FALSE, after |-> {}]

\* assistant.py:21  the cache is empty when the process starts, and no call has been made;
\* cache is the OrderedDict as the list of its (key, id) items, oldest first
\* recency is a history field: the prompt keys in the order of their last use
NoAssistant ==
  [cache |-> <<>>, calls |-> [h \in 1..MaxCalls |-> IdleCall], recency |-> <<>>]

NoCalls ==
  /\ agent = NoAgent
  /\ assistant = NoAssistant

TypeOK ==
  /\ \A w \in DOMAIN workflows : ValidGraph(workflows[w])
  /\ Len(runs) <= MaxRuns
  /\ DOMAIN node_runs = RunIds
  /\ DOMAIN tasks = RunIds
  /\ \A r \in RunIds : tasks[r].pc \in
       {"idle", "dispatched", "setup", "loop", "mark", "block", "finlog", "errlog",
        "except", "done", "crashed"}

\* one stored workflow whose graph passed validation (api.py:298-311), of at most maxn
\* nodes of the given types and maxe edges, and no run yet
InitWithTypes(maxn, maxe, types) ==
  /\ \E k \in 0..maxn, n \in 0..maxe :
       \E ns \in NodeLists(k, types), es \in [1..n -> EdgeValues(k)] :
         /\ ValidGraph([nodes |-> ns, edges |-> es])
         /\ workflows = <<[nodes |-> ns, edges |-> es]>>
  /\ runs = <<>>
  /\ node_runs = [r \in RunIds |-> <<>>]
  /\ logs = <<>>
  /\ tasks = [r \in RunIds |-> IdleTask]
  /\ invoked = [r \in RunIds |-> <<>>]
  /\ raised = [r \in RunIds |-> NoNode]
  /\ tg = EmptyGraph
  /\ tres = NoResponse
  /\ NoReaders
  /\ NoCalls

\* the stored workflow has nodes of the registered types NodeTypes
InitWith(maxn, maxe) == InitWithTypes(maxn, maxe, NodeTypes)

Init == InitWith(ConcNodes, ConcEdges)

\* ----------------------------------------------------------------- actions
\* orchestrator.py:14-30  create_and_start_run: insert the Run, commit, add the background task
create_and_start_run(w, trigger_payload) ==
  /\ w \in DOMAIN workflows
  /\ Len(runs) < MaxRuns
  /\ runs' = Append(runs, NewRun(w, trigger_payload))
  /\ tasks' = [tasks EXCEPT ![Len(runs) + 1].pc = "dispatched",
                            ![Len(runs) + 1].at_dispatch = workflows[w],
                            ![Len(runs) + 1].payload = trigger_payload]
  /\ UNCHANGED <<workflows, node_runs, logs, invoked, raised, tg, tres, ext_vars>>

\* executor.py:20-26  load the run and its workflow, mark the run running, commit
execute_run_begin(r) ==
  /\ tasks[r].pc = "dispatched"
  /\ r \in DOMAIN runs
  /\ runs' = mark_run_running(runs, r, tasks[r].clock)
  /\ tasks' = [tasks EXCEPT ![r].pc = "setup",
                            ![r].graph = workflows[runs[r].workflow_id],
                            ![r].clock = @ + 1]
  /\ UNCHANGED <<workflows, node_runs, logs, invoked, raised, tg, tres, ext_vars>>

\* executor.py:28-61  graph, order, parents, http client, GCS writer, RunContext: all before
\* the try.  Graph.model_validate raises on an invalid stored graph; the construction of the
\* context can raise (RunContext is called with user_id=, blocks/base.py:14-18 declares no
\* such field).  An exception here leaves execute_run: nothing catches it.
execute_run_setup(r) ==
  /\ tasks[r].pc = "setup"
  /\ \/ /\ ValidGraph(tasks[r].graph)
        /\ tasks' = [tasks EXCEPT ![r].pc = "loop",
                                  ![r].order = Toposort(tasks[r].graph).order,
                                  ![r].idx = 1,
                                  ![r].outputs = <<>>,
                                  ![r].http = "open"]
     \/ /\ tasks' = [tasks EXCEPT ![r].pc = "crashed",
                                  ![r].http = IF ValidGraph(tasks[r].graph) THEN "open" ELSE "none"]
  /\ UNCHANGED <<workflows, runs, node_runs, logs, invoked, raised, tg, tres, ext_vars>>


\* seeded fault: the handler swallows the exception and the loop goes on
AfterNodeErrorContinues(t) == [t EXCEPT !.pc = "loop", !.idx = @ + 1]

\* seeded fault: the handler runs the node again
AfterNodeErrorRetries(t) == [t EXCEPT !.pc = "mark"]

\* executor.py:110  raise: the exception reaches the outer except
AfterNodeError(t) == [t EXCEPT !.pc = "except"]

\* executor.py:64-70  loop head at a node whose type starts with "tool.": log and continue
skip_tool_node(r) ==
  /\ tasks[r].pc = "loop"
  /\ tasks[r].idx <= Len(tasks[r].order)
  /\ IsToolNode(CurNode(tasks[r]))
  /\ \/ /\ logs' = insert_log(logs, r, CurNode(tasks[r]).id, "skip")
        /\ tasks' = [tasks EXCEPT ![r].idx = @ + 1]
     \/ /\ tasks' = [tasks EXCEPT ![r].pc = "except"]
        /\ UNCHANGED logs
  /\ UNCHANGED <<workflows, runs, node_runs, invoked, raised, tg, tres, ext_vars>>

\* executor.py:72  logger("Starting node ...")
log_starting_node(r) ==
  /\ tasks[r].pc = "loop"
  /\ tasks[r].idx <= Len(tasks[r].order)
  /\ ~IsToolNode(CurNode(tasks[r]))
  /\ \/ /\ logs' = insert_log(logs, r, CurNode(tasks[r]).id, "start")
        /\ tasks' = [tasks EXCEPT ![r].pc = "mark"]
     \/ /\ tasks' = [tasks EXCEPT ![r].pc = "except"]
        /\ UNCHANGED logs
  /\ UNCHANGED <<workflows, runs, node_runs, invoked, raised, tg, tres, ext_vars>>

\* executor.py:74-101  build the input, insert the NodeRun as running, commit, call run_block
start_node(r) ==
  /\ tasks[r].pc = "mark"
  /\ \/ /\ node_runs' = [node_runs EXCEPT ![r] =
                           mark_node_status(@, CurNode(tasks[r]).id, CurNode(tasks[r]).type,
                                            tasks[r].clock)]
        /\ invoked' = [invoked EXCEPT ![r] = Append(@, CurNode(tasks[r]).id)]
        /\ tasks' = [tasks EXCEPT ![r].pc = "block", ![r].clock = @ + 1,
                                  ![r].upstream = upstream_outputs(tasks[r])]
     \/ /\ tasks' = [tasks EXCEPT ![r].pc = "except"]
        /\ UNCHANGED <<node_runs, invoked>>
  /\ UNCHANGED <<workflows, runs, logs, raised, tg, tres, ext_vars>>

\* executor.py:101-104  the block of a registered type returns: store the output, persist
\* the success, commit;
\* executor.py:106-108  when persisting raises, the handler persists the node as failed
block_returns(r) ==
  /\ tasks[r].pc = "block"
  /\ run_block_finds(CurNode(tasks[r]).type)
  /\ \E result \in BlockResults :
       \/ /\ node_runs' = [node_runs EXCEPT ![r] =
                             persist_node_success(@, CurNode(tasks[r]).id, tasks[r].clock)]
          /\ tasks' = [tasks EXCEPT ![r].pc = "finlog", ![r].clock = @ + 1,
                         ![r].outputs = StoreOutput(@, CurNode(tasks[r]).id, result)]
       \/ /\ node_runs' = [node_runs EXCEPT ![r] =
                             persist_node_error(@, CurNode(tasks[r]).id, tasks[r].clock)]
          /\ tasks' = [tasks EXCEPT ![r].pc = "errlog", ![r].clock = @ + 1,
                         ![r].outputs = StoreOutput(@, CurNode(tasks[r]).id, result)]
  /\ UNCHANGED <<workflows, runs, logs, invoked, raised, tg, tres, ext_vars>>

\* executor.py:101,106-108  the block raises, or run_block raises for a type that is not
\* registered (registry.py:18-20): persist the node as failed, commit
block_raises(r) ==
  /\ tasks[r].pc = "block"
  /\ raised' = [raised EXCEPT ![r] = CurNode(tasks[r]).id]
  /\ node_runs' = [node_runs EXCEPT ![r] =
                     persist_node_error(@, CurNode(tasks[r]).id, tasks[r].clock)]
  /\ tasks' = [tasks EXCEPT ![r].pc = "errlog", ![r].clock = @ + 1]
  /\ UNCHANGED <<workflows, runs, logs, invoked, tg, tres, ext_vars>>

\* executor.py:105  logger("Finished node ..."), then the next node;
\* executor.py:106-108  when the log raises, the handler persists the node as failed
log_finished_node(r) ==
  /\ tasks[r].pc = "finlog"
  /\ \/ /\ logs' = insert_log(logs, r, CurNode(tasks[r]).id, "finished")
        /\ tasks' = [tasks EXCEPT ![r].pc = "loop", ![r].idx = @ + 1]
        /\ UNCHANGED node_runs
     \/ /\ node_runs' = [node_runs EXCEPT ![r] =
                           persist_node_error(@, CurNode(tasks[r]).id, tasks[r].clock)]
        /\ tasks' = [tasks EXCEPT ![r].pc = "errlog", ![r].clock = @ + 1]
        /\ UNCHANGED logs
  /\ UNCHANGED <<workflows, runs, invoked, raised, tg, tres, ext_vars>>

\* executor.py:109-110  logger("Node ... failed: ..."), raise
log_node_failed(r) ==
  /\ tasks[r].pc = "errlog"
  /\ logs' = insert_log(logs, r, CurNode(tasks[r]).id, "failed")
  /\ tasks' = [tasks EXCEPT ![r] = AfterNodeError(@)]
  /\ UNCHANGED <<workflows, runs, node_runs, invoked, raised, tg, tres, ext_vars>>

\* seeded fault: the failed run is persisted without the outputs collected so far
FailedOutputsEmpty(t) == <<>>

\* executor.py:115  the outputs the except handler persists
FailedOutputs(t) == t.outputs

\* executor.py:112-113,117-118  end of the order: mark the run succeeded, commit, close the client;
\* when that raises, control is in the outer except
finish_run(r) ==
  /\ tasks[r].pc = "loop"
  /\ tasks[r].idx > Len(tasks[r].order)
  /\ \/ /\ runs' = mark_run_succeeded(runs, r, tasks[r].outputs, tasks[r].clock)
        /\ tasks' = [tasks EXCEPT ![r].pc = "done", ![r].http = "closed", ![r].clock = @ + 1]
     \/ /\ tasks' = [tasks EXCEPT ![r].pc = "except"]
        /\ UNCHANGED runs
  /\ UNCHANGED <<workflows, node_runs, logs, invoked, raised, tg, tres, ext_vars>>

\* executor.py:114-118  outer except: mark the run failed with the outputs so far, commit,
\* close the client
fail_run(r) ==
  /\ tasks[r].pc = "except"
  /\ runs' = mark_run_failed(runs, r, FailedOutputs(tasks[r]), tasks[r].clock)
  /\ tasks' = [tasks EXCEPT ![r].pc = "done", ![r].http = "closed", ![r].clock = @ + 1]
  /\ UNCHANGED <<workflows, node_runs, logs, invoked, raised, tg, tres, ext_vars>>

Next ==
  \/ \E w \in DOMAIN workflows : create_and_start_run(w, NoPayload)
  \/ \E r \in RunIds : execute_run_begin(r)
  \/ \E r \in RunIds : execute_run_setup(r)
  \/ \E r \in RunIds : skip_tool_node(r)
  \/ \E r \in RunIds : log_starting_node(r)
  \/ \E r \in RunIds : start_node(r)
  \/ \E r \in RunIds : block_returns(r)
  \/ \E r \in RunIds : block_raises(r)
  \/ \E r \in RunIds : log_finished_node(r)
  \/ \E r \in RunIds : log_node_failed(r)
  \/ \E r \in RunIds : finish_run(r)
  \/ \E r \in RunIds : fail_run(r)

Spec == Init /\ [][Next]_vars

\* ------------------------------------------- the system with a single trigger
\* orchestrator.py:14-30  the first (and only) trigger call
start_single_run(w) ==
  /\ runs = <<>>
  /\ create_and_start_run(w, NoPayload)

NextOneRun ==
  \/ \E w \in DOMAIN workflows : start_single_run(w)
  \/ \E r \in RunIds : execute_run_begin(r)
  \/ \E r \in RunIds : execute_run_setup(r)
  \/ \E r \in RunIds : skip_tool_node(r)
  \/ \E r \in RunIds : log_starting_node(r)
  \/ \E r \in RunIds : start_node(r)
  \/ \E r \in RunIds : block_returns(r)
  \/ \E r \in RunIds : block_raises(r)
  \/ \E r \in RunIds : log_finished_node(r)
  \/ \E r \in RunIds : log_node_failed(r)
  \/ \E r \in RunIds : finish_run(r)
  \/ \E r \in RunIds : fail_run(r)

InitOneRun == InitWith(MaxNodes, MaxEdges)

SpecOneRun == InitOneRun /\ [][NextOneRun]_vars

\* the steps of execute_run that are the executor's own: everything but the outcome of
\* run_block (executor.py:101), which is the block's
executor_step(r) ==
  \/ execute_run_begin(r)
  \/ execute_run_setup(r)
  \/ skip_tool_node(r)
  \/ log_starting_node(r)
  \/ start_node(r)
  \/ log_finished_node(r)
  \/ log_node_failed(r)
  \/ finish_run(r)
  \/ fail_run(r)

\* the background task is scheduled until it ends: a step of the executor that can be
\* taken is taken; a block is not bound to return or raise
FairSpecOneRun == SpecOneRun /\ \A r \in RunIds : WF_vars(executor_step(r))

\* ------------------ one run of a workflow that may have nodes of an unregistered type
\* POST /workflows stores such a graph (api.py:298-311 never looks up node.type)
InitRegistry == InitWithTypes(RegNodes, RegEdges, NodeTypes \cup {UnknownType})

SpecRegistry == InitRegistry /\ [][NextOneRun]_vars

\* ------------------------------------------- pure-function specification
\* api.py:363-370  POST /validate-graph on a graph value: the body is parsed into a Graph
\* (graph.py:34-46), then ordered; ok = FALSE stands for the error response
validate_graph ==
  /\ ~tres.set
  /\ IF UniqueNodeIds(tg) /\ EdgeEndpointsExist(tg)
     THEN LET t == Toposort(tg)
          IN  tres' = Response("validate", t.ok, t.order)
     ELSE tres' = Response("validate", FALSE, <<>>)
  /\ UNCHANGED <<workflows, runs, node_runs, logs, tasks, invoked, raised, tg, ext_vars>>

InitTopo ==
  /\ workflows = <<>>
  /\ runs = <<>>
  /\ node_runs = [r \in RunIds |-> <<>>]
  /\ logs = <<>>
  /\ tasks = [r \in RunIds |-> IdleTask]
  /\ invoked = [r \in RunIds |-> <<>>]
  /\ raised = [r \in RunIds |-> NoNode]
  /\ \E k \in 0..TopoMaxNodes, n \in 0..TopoMaxEdges :
       \E ns \in NodeLists(k, {"start"}), es \in [1..n -> EdgeValues(k)] :
         tg = [nodes |-> ns, edges |-> es]
  /\ tres = NoResponse
  /\ NoReaders
  /\ NoCalls

NextTopo == validate_graph

SpecTopo == InitTopo /\ [][NextTopo]_vars

\* ------------------------------------- POST /workflows, PUT /workflows/{id}
\* seeded fault: the settings of a tool are not validated
ToolEntryOKUnvalidated(t) ==
  /\ t.name # ""
  /\ t.type # ""
  /\ is_tool_compatible(t.type)

\* api.py:132-155  one entry of settings.tools: name, type, compatible type, settings that
\* pass the settings model of the tool's type
ToolEntryOK(t) ==
  /\ t.name # ""
  /\ t.type # ""
  /\ is_tool_compatible(t.type)
  /\ t.settings = "valid"

\* api.py:120-159  every agent node: each tool entry passes and no name occurs twice;
\* FALSE stands for HTTPException(400)
AgentToolsOK(g) ==
  \A i \in DOMAIN g.nodes :
    is_agent(g.nodes[i].type) =>
      LET tools == g.nodes[i].tools
      IN  /\ \A j \in DOMAIN tools : ToolEntryOK(tools[j])
          /\ \A j, k \in DOMAIN tools : j # k => tools[j].name # tools[k].name

\* api.py:152-156  the tools written back: name, type and the validated settings
NormalizedTools(tools) ==
  [j \in DOMAIN tools |-> [name |-> tools[j].name, type |-> tools[j].type, settings |-> "valid"]]

\* api.py:104,156-161  gdict: the graph with the tools of every agent node normalised
NormalizedGraph(g) ==
  [nodes |-> [i \in DOMAIN g.nodes |->
                IF is_agent(g.nodes[i].type)
                THEN [g.nodes[i] EXCEPT !.tools = NormalizedTools(@)]
                ELSE g.nodes[i]],
   edges |-> g.edges]

\* api.py:90,97 (the body is parsed into a Graph), api.py:301,341
\* (_validate_and_normalize_agent_tools): what a write of graph g has to pass
WriteAccepts(g) ==
  /\ ValidGraph(g)
  /\ AgentToolsOK(g)

\* api.py:298-311  POST /workflows with body graph tg
create_workflow ==
  /\ ~tres.set
  /\ IF WriteAccepts(tg)
     THEN /\ workflows' = Append(workflows, NormalizedGraph(tg))
          /\ tres' = Response("create", TRUE, <<>>)
     ELSE /\ UNCHANGED workflows
          /\ tres' = Response("create", FALSE, <<>>)
  /\ UNCHANGED <<runs, node_runs, logs, tasks, invoked, raised, tg, ext_vars>>

\* api.py:331-348  PUT /workflows/{w} with body graph tg
update_workflow(w) ==
  /\ ~tres.set
  /\ w \in DOMAIN workflows
  /\ IF WriteAccepts(tg)
     THEN /\ workflows' = [workflows EXCEPT ![w] = NormalizedGraph(tg)]
          /\ tres' = Response("update", TRUE, <<>>)
     ELSE /\ UNCHANGED workflows
          /\ tres' = Response("update", FALSE, <<>>)
  /\ UNCHANGED <<runs, node_runs, logs, tasks, invoked, raised, tg, ext_vars>>

\* ------------------------------- one run, and one PUT of the workflow's graph
\* a stored workflow and the body of the PUT request to come, both of at most UpdNodes
\* nodes and UpdEdges edges
InitUpdate ==
  /\ \E k \in 0..UpdNodes, n \in 0..UpdEdges :
       \E ns \in NodeLists(k, NodeTypes), es \in [1..n -> EdgeValues(k)] :
         /\ ValidGraph([nodes |-> ns, edges |-> es])
         /\ workflows = <<[nodes |-> ns, edges |-> es]>>
  /\ \E k \in 0..UpdNodes, n \in 0..UpdEdges :
       \E ns \in NodeLists(k, NodeTypes), es \in [1..n -> EdgeValues(k)] :
         tg = [nodes |-> ns, edges |-> es]
  /\ runs = <<>>
  /\ node_runs = [r \in RunIds |-> <<>>]
  /\ logs = <<>>
  /\ tasks = [r \in RunIds |-> IdleTask]
  /\ invoked = [r \in RunIds |-> <<>>]
  /\ raised = [r \in RunIds |-> NoNode]
  /\ tres = NoResponse
  /\ NoReaders
  /\ NoCalls

NextUpdate ==
  \/ NextOneRun
  \/ \E w \in DOMAIN workflows : update_workflow(w)

SpecUpdate == InitUpdate /\ [][NextUpdate]_vars

\* --------------------- the write and validation endpoints on one request body
\* a node with its settings (do they pass the settings schema of its type: "valid" or
\* "invalid") and, for an agent node, its settings.tools
WriteNode(id, type, settings, tools) ==
  [id |-> id, type |-> type, settings |-> settings, tools |-> tools]

NodeSettings == {"valid", "invalid"}

\* entries of settings.tools of an agent node: {name, type, settings}
ToolEntries == [name : {"a"}, type : {"tool.calculator", UnknownType}, settings : NodeSettings]

ToolLists(m) == UNION {[1..n -> ToolEntries] : n \in 0..m}

\* type, settings and tools of a node: a registered or unregistered type without tools,
\* or an agent with a list of tools
TypedOptions ==
  [type : {"start", "tool.calculator", UnknownType}, settings : NodeSettings, tools : {<<>>}]
    \cup [type : {AgentType}, settings : NodeSettings, tools : ToolLists(MaxTools)]

\* one stored workflow (the empty graph) and a request body tg that is either
\*  - any list of at most WriteNodes "start" nodes with ids drawn from 1..WriteNodes
\*    (ids may repeat) and at most WriteEdges edges between ids of 1..WriteNodes
\*    (endpoints may be ids of no node), or
\*  - at most TypedNodes nodes 1..k of any type, settings and tools, without edges
InitWrite ==
  /\ workflows = <<EmptyGraph>>
  /\ runs = <<>>
  /\ node_runs = [r \in RunIds |-> <<>>]
  /\ logs = <<>>
  /\ tasks = [r \in RunIds |-> IdleTask]
  /\ invoked = [r \in RunIds |-> <<>>]
  /\ raised = [r \in RunIds |-> NoNode]
  /\ \/ \E k \in 0..WriteNodes, n \in 0..WriteEdges :
          \E ids \in [1..k -> 1..WriteNodes], es \in [1..n -> EdgeValues(WriteNodes)] :
            tg = [nodes |-> [i \in 1..k |-> WriteNode(ids[i], "start", "valid", <<>>)],
                  edges |-> es]
     \/ \E k \in 0..TypedNodes :
          \E f \in [1..k -> TypedOptions] :
            tg = [nodes |-> [i \in 1..k |-> WriteNode(i, f[i].type, f[i].settings, f[i].tools)],
                  edges |-> <<>>]
  /\ tres = NoResponse
  /\ NoReaders
  /\ NoCalls

NextWrite ==
  \/ validate_graph
  \/ create_workflow
  \/ \E w \in DOMAIN workflows : update_workflow(w)

SpecWrite == InitWrite /\ [][NextWrite]_vars


\* ------------------------------------------------------ GET /runs/{run_id}
\* the row with the greatest started_at (ORDER BY started_at DESC LIMIT 1)
LatestStarted(S) == CHOOSE x \in S : \A y \in S : y.started_at <= x.started_at

\* seeded fault: the latest NodeRun is reported whether finished or not
get_run_current_node_id_latest(r) ==
  LET nr == Range(node_runs[r])
  IN  IF nr # {} THEN LatestStarted(nr).node_id ELSE NoNode

\* api.py:402-424  current_node_id of get_run
get_run_current_node_id(r) ==
  LET nr == Range(node_runs[r])
      running == {x \in nr : x.status = "running"}
  IN  IF running # {} THEN LatestStarted(running).node_id
      ELSE IF nr # {} /\ LatestStarted(nr).finished_at = Null
           THEN LatestStarted(nr).node_id
           ELSE NoNode

\* ------------------------------------------- GET /runs/{id}/stream (and its alias)
\* one server-sent event; id is the Log.id of a log event, node_id the node of a log /
\* node_started / node_finished / node_failed event, status that of a status event
Event(type, id, node_id, status) ==
  [type |-> type, id |-> id, node_id |-> node_id, status |-> status]

\* the messages a block logs through ctx.logger while it runs: one without the word
\* 'failed', and 'agent.react(openai_agents): failed to load tools' (agent_react.py:141),
\* after which the block goes on
BlockMessages == {"note", "failed to load tools"}

\* api.py:494  'failed' in msg; "failed" stands for the executor's 'Node <id> failed: ...'
ContainsFailed(message) == message \in {"failed", "failed to load tools"}

\* api.py:481-496  the events of one log row: the log event, then node_started for a
\* 'Starting node' message, node_finished for a 'Finished node' message, node_failed for
\* any other message containing 'failed'; the skip message gives the log event only
RowEvents(row) ==
  <<Event("log", row.id, row.node_id, "")>> \o
  (IF row.message = "start" /\ row.node_id # NoNode
     THEN <<Event("node_started", 0, row.node_id, "")>> ELSE <<>>) \o
  (IF (row.message = "finished" \/ ContainsFailed(row.message)) /\ row.node_id # NoNode
     THEN <<Event(IF row.message = "finished" THEN "node_finished" ELSE "node_failed",
                  0, row.node_id, "")>>
     ELSE <<>>)

RECURSIVE EventsOfRows(_)
EventsOfRows(rows) ==
  IF rows = <<>> THEN <<>> ELSE RowEvents(Head(rows)) \o EventsOfRows(Tail(rows))

\* api.py:478-480  select(Log).where(run_id, id > last_id).order_by(id): ids are the
\* positions of the table, so the rows come out in table order
LogsAfter(r, last_id) ==
  SelectSeq(logs, LAMBDA row : row.run_id = r /\ row.id > last_id)

\* seeded fault: the generator also stops on status running
StreamBreaksOnRunning(status) == status \in {"succeeded", "failed", "running"}

\* api.py:510  if status in ('succeeded', 'failed'): break
StreamBreaksOn(status) == status \in {"succeeded", "failed"}

\* api.py:465-474  the request: 404 unless the run exists, else the generator starts with
\* last_id = 0 and last_status = None
stream_run(r) ==
  /\ stream.pc = "none"
  /\ stream' = IF r \in DOMAIN runs
               THEN [NoStream EXCEPT !.pc = "logs", !.run = r]
               ELSE [NoStream EXCEPT !.pc = "rejected", !.run = r]
  /\ UNCHANGED <<workflows, runs, node_runs, logs, tasks, invoked, raised, tg, tres, poll, agent, assistant>>

\* api.py:476-497  first half of an iteration: the new log rows and their events
stream_read_logs ==
  /\ stream.pc = "logs"
  /\ LET rows == LogsAfter(stream.run, stream.last_id)
     IN  stream' = [stream EXCEPT
           !.pc = "status",
           !.events = @ \o EventsOfRows(rows),
           !.last_id = IF rows = <<>> THEN @ ELSE rows[Len(rows)].id]
  /\ UNCHANGED <<workflows, runs, node_runs, logs, tasks, invoked, raised, tg, tres, poll, agent, assistant>>

\* api.py:499-513  second half: the run is read again; not_found or a terminal status ends
\* the generator, any other status is followed by the sleep and the next iteration.
\* No handler deletes a run, so the row is always found.
stream_read_status ==
  /\ stream.pc = "status"
  /\ IF stream.run \notin DOMAIN runs
     THEN stream' = [stream EXCEPT
            !.pc = "ended",
            !.events = Append(@, Event("status", 0, NoNode, "not_found"))]
     ELSE LET status == runs[stream.run].status
          IN  stream' = [stream EXCEPT
                !.pc = IF StreamBreaksOn(status) THEN "ended" ELSE "logs",
                !.last_status = status,
                !.events = IF status # stream.last_status
                           THEN Append(@, Event("status", 0, NoNode, status))
                           ELSE @]
  /\ UNCHANGED <<workflows, runs, node_runs, logs, tasks, invoked, raised, tg, tres, poll, agent, assistant>>

\* one run and one stream request
InitStream ==
  /\ InitWith(StreamNodes, StreamEdges)

NextStream ==
  \/ NextOneRun
  \/ \E r \in RunIds : stream_run(r)
  \/ stream_read_logs
  \/ stream_read_status

SpecStream == InitStream /\ [][NextStream]_vars

\* ----------------------------- the stream of a run whose blocks write log entries
\* the log entries of run r that its blocks wrote
BlockLogs(r) == SelectSeq(logs, LAMBDA l : l.run_id = r /\ l.message \in BlockMessages)

\* blocks/base.py:14-18, executor.py:49-50  the running block calls ctx.logger(message,
\* node_id=node_id): insert_log under the run, committed at once
block_logs(r, message) ==
  /\ tasks[r].pc = "block"
  /\ run_block_finds(CurNode(tasks[r]).type)
  /\ Len(BlockLogs(r)) < MaxBlockLogs
  /\ logs' = insert_log(logs, r, CurNode(tasks[r]).id, message)
  /\ UNCHANGED <<workflows, runs, node_runs, tasks, invoked, raised, tg, tres, ext_vars>>

NextBlockLogs ==
  \/ NextStream
  \/ \E r \in RunIds, message \in BlockMessages : block_logs(r, message)

SpecBlockLogs == InitStream /\ [][NextBlockLogs]_vars

\* ------------------------------------------------- GET /runs/{id}/logs?after_id=N
\* seeded fault: the cursor row itself is returned again
AfterCursorInclusive(id, after_id) == after_id = NoCursor \/ id >= after_id

\* api.py:449-450  if after_id is not None: where(Log.id > after_id)
AfterCursor(id, after_id) == after_id = NoCursor \/ id > after_id

\* api.py:448-451  the rows of the run behind the cursor, ordered by ts; ts is taken when
\* the row is inserted (models.py:79), so the rows of a run come out in table order
get_run_logs(r, after_id) ==
  SelectSeq(logs, LAMBDA row : row.run_id = r /\ AfterCursor(row.id, after_id))

\* the largest of the ids the client holds
RECURSIVE MaxId(_, _)
MaxId(ids, m) ==
  IF ids = <<>> THEN m
  ELSE MaxId(Tail(ids), IF m = NoCursor \/ Head(ids) > m THEN Head(ids) ELSE m)

\* api.py:438-462  one request of the client for run r with its cursor: 404 if there is
\* no such run (api.py:444-446), else the entries; the client keeps them and moves its
\* cursor to the largest id it has received
poll_logs(r) ==
  /\ poll.run \in {0, r}
  /\ IF r \notin DOMAIN runs
     THEN poll' = [poll EXCEPT !.run = r, !.code = "404", !.after = poll.cursor,
                               !.last = <<>>, !.at_terminal = FALSE]
     ELSE LET rows == get_run_logs(r, poll.cursor)
              ids  == [i \in DOMAIN rows |-> rows[i].id]
          IN  poll' = [poll EXCEPT
                !.run = r, !.code = "200", !.after = poll.cursor, !.last = ids,
                !.received = @ \o ids,
                !.cursor = MaxId(ids, @),
                !.at_terminal = runs[r].status \in {"succeeded", "failed"}]
  /\ UNCHANGED <<workflows, runs, node_runs, logs, tasks, invoked, raised, tg, tres, stream, agent, assistant>>

\* one run and one polling client
InitPoll ==
  /\ InitWith(StreamNodes, StreamEdges)

NextPoll ==
  \/ NextOneRun
  \/ \E r \in RunIds : poll_logs(r)

SpecPoll == InitPoll /\ [][NextPoll]_vars

\* ----------------------------------------------------- the agent.react block
\* the tool nodes an agent can have attached by tool edges (executor.py:84-98): a local
\* tool and a Composio tool, each under its name
CalcTool == [name |-> "calc", type |-> "tool.calculator"]
SlackTool == [name |-> "slack", type |-> "tool.composio"]
AgentTools == {CalcTool, SlackTool}

\* agent_react.py:94-104  the split of the attached tools
composio_tools(tools) == {t \in tools : t.type = "tool.composio"}
non_composio_tools(tools) == tools \ composio_tools(tools)

\* agent_react.py:299-303  tools_spec of the internal loop: the names it can dispatch to
tools_spec(tools) == {t.name : t \in non_composio_tools(tools)}

\* a reply of the model: a final answer, an action naming a tool, or neither
Reply(kind, tool) == [kind |-> kind, tool |-> tool]
Replies ==
  {Reply("final", ""), Reply("other", "")} \cup
  {Reply("action", n) : n \in {"calc", "slack", "nope"}}

FailedFinal == "Failed to reach a final answer within max_steps."

\* one entry of the returned trace: the step of the final answer (agent_react.py:320), or
\* the provider entry of the runtime (agent_react.py:290), step 0
TraceEntry(step, provider) == [step |-> step, provider |-> provider]

\* one message the loop appends to the transcript, with the step that appended it
Message(step, content, tool) == [step |-> step, content |-> content, tool |-> tool]

\* seeded fault: every name is looked up as the calculator tool
find_tool_spec_any(tools, name) == TRUE

\* agent_react.py:330  spec = next((t for t in tools_spec if t.get("name") == tool_name), None)
find_tool_spec(tools, name) == name \in tools_spec(tools)

\* agent_react.py:311  for step in range(1, max_steps + 1)
StepAllowed(step, max_steps) == step <= max_steps

Raise(a, why) == [a EXCEPT !.pc = "raised", !.error = why]

\* agent_react.py:60-262  run up to the point where the agent is handed to the provider
\* runtime or to the internal loop: an empty prompt raises (64-65); Composio tools without
\* the Composio provider raise (107-111); local tools without the Agents SDK fall back
\* to the internal loop (148-155); otherwise a missing Agents SDK raises (259-262)
agent_run ==
  /\ agent.pc = "called"
  /\ agent' =
       IF agent.prompt = "" THEN Raise(agent, "prompt")
       ELSE IF composio_tools(agent.tools) # {} /\ ~agent.composio
         THEN Raise(agent, "composio")
       ELSE IF non_composio_tools(agent.tools) # {} /\ ~agent.sdk
         THEN [agent EXCEPT !.pc = "react", !.via = "react"]
       ELSE IF ~agent.sdk THEN Raise(agent, "sdk")
       ELSE [agent EXCEPT !.pc = "runtime", !.via = "runtime"]
  /\ UNCHANGED <<workflows, runs, node_runs, logs, tasks, invoked, raised, tg, tres,
                 stream, poll, assistant>>

\* agent_react.py:278-290  Runner.run returned
runtime_returns ==
  /\ agent.pc = "runtime"
  /\ agent' = [agent EXCEPT !.pc = "returned", !.final = "answer",
                            !.trace = <<TraceEntry(0, "openai_agents")>>]
  /\ UNCHANGED <<workflows, runs, node_runs, logs, tasks, invoked, raised, tg, tres,
                 stream, poll, assistant>>

\* agent_react.py:278-282  Runner.run raised; the error is logged and re-raised
runtime_raises ==
  /\ agent.pc = "runtime"
  /\ agent' = Raise(agent, "runtime")
  /\ UNCHANGED <<workflows, runs, node_runs, logs, tasks, invoked, raised, tg, tres,
                 stream, poll, assistant>>

\* agent_react.py:311-349  one iteration of the internal loop up to its next await: the
\* model is asked and its reply parsed. A final answer returns; an action on an unknown
\* tool appends the observation and continues; an action on a known tool calls run_block;
\* any other reply appends the request for a final answer and continues
react_ask(reply) ==
  /\ agent.pc = "react"
  /\ StepAllowed(agent.step, agent.max_steps)
  /\ LET a == [agent EXCEPT !.asked = @ + 1, !.replies = Append(@, reply)]
     IN  agent' =
           IF reply.kind = "final"
             THEN [a EXCEPT !.pc = "returned", !.final = "answer",
                            !.trace = <<TraceEntry(agent.step, "")>>]
           ELSE IF reply.kind = "action"
             THEN IF ~find_tool_spec(agent.tools, reply.tool)
                  THEN [a EXCEPT
                         !.transcript = Append(@, Message(agent.step, "Observation: Unknown tool", reply.tool)),
                         !.step = @ + 1]
                  ELSE [a EXCEPT !.pc = "tool",
                                 !.calls = Append(@, [step |-> agent.step, tool |-> reply.tool])]
           ELSE [a EXCEPT
                  !.transcript = Append(@, Message(agent.step, "Please provide Final Answer.", "")),
                  !.step = @ + 1]
  /\ UNCHANGED <<workflows, runs, node_runs, logs, tasks, invoked, raised, tg, tres,
                 stream, poll, assistant>>

\* agent_react.py:312-316  the call of the model raises; the loop has no handler for it
react_model_raises ==
  /\ agent.pc = "react"
  /\ StepAllowed(agent.step, agent.max_steps)
  /\ agent' = Raise([agent EXCEPT !.asked = @ + 1], "model")
  /\ UNCHANGED <<workflows, runs, node_runs, logs, tasks, invoked, raised, tg, tres,
                 stream, poll, assistant>>

\* agent_react.py:349-352  run_block returned: its result is appended as an observation
tool_returns ==
  /\ agent.pc = "tool"
  /\ agent' = [agent EXCEPT
       !.pc = "react",
       !.transcript = Append(@, Message(agent.step, "Observation: result",
                                        agent.calls[Len(agent.calls)].tool)),
       !.step = @ + 1]
  /\ UNCHANGED <<workflows, runs, node_runs, logs, tasks, invoked, raised, tg, tres,
                 stream, poll, assistant>>

\* agent_react.py:349  run_block raised; the loop has no handler for it
tool_raises ==
  /\ agent.pc = "tool"
  /\ agent' = Raise(agent, "tool")
  /\ UNCHANGED <<workflows, runs, node_runs, logs, tasks, invoked, raised, tg, tres,
                 stream, poll, assistant>>

\* agent_react.py:354  the loop ran out of steps
react_exhausted ==
  /\ agent.pc = "react"
  /\ ~StepAllowed(agent.step, agent.max_steps)
  /\ agent' = [agent EXCEPT !.pc = "returned", !.final = FailedFinal, !.trace = <<>>]
  /\ UNCHANGED <<workflows, runs, node_runs, logs, tasks, invoked, raised, tg, tres,
                 stream, poll, assistant>>

\* run_block(agent.react) is called with any prompt, any attached tools, the Agents SDK
\* and the Composio provider installed or not, and max_steps from 1 to MaxSteps
InitAgent ==
  /\ workflows = <<>>
  /\ runs = <<>>
  /\ node_runs = [r \in RunIds |-> <<>>]
  /\ logs = <<>>
  /\ tasks = [r \in RunIds |-> IdleTask]
  /\ invoked = [r \in RunIds |-> <<>>]
  /\ raised = [r \in RunIds |-> NoNode]
  /\ tg = EmptyGraph
  /\ tres = NoResponse
  /\ NoReaders
  /\ assistant = NoAssistant
  /\ \E prompt \in {"", "p"}, tools \in SUBSET AgentTools, sdk \in BOOLEAN,
        composio \in BOOLEAN, max_steps \in 1..MaxSteps :
       agent = [NoAgent EXCEPT !.pc = "called", !.prompt = prompt, !.tools = tools,
                               !.sdk = sdk, !.composio = composio,
                               !.max_steps = max_steps]

NextAgent ==
  \/ agent_run
  \/ runtime_returns
  \/ runtime_raises
  \/ \E reply \in Replies : react_ask(reply)
  \/ react_model_raises
  \/ tool_returns
  \/ tool_raises
  \/ react_exhausted

SpecAgent == InitAgent /\ [][NextAgent]_vars

\* ------------------------------------------ the assistant: POST /assistant/new
\* a prompt is a string, as the list of its characters
Prompts == {<<>>, <<" ">>, <<"a">>, <<" ", "a">>, <<"a", " ">>, <<"b">>}

RECURSIVE lstrip(_)
lstrip(p) == IF p # <<>> /\ Head(p) = " " THEN lstrip(Tail(p)) ELSE p

RECURSIVE rstrip(_)
rstrip(p) ==
  IF p # <<>> /\ p[Len(p)] = " " THEN rstrip(SubSeq(p, 1, Len(p) - 1)) ELSE p

\* assistant.py:500  prompt_key = (prompt or "").strip()
prompt_key(prompt) == rstrip(lstrip(prompt))

\* assistant.py:505  _assistant_cache.get(prompt_key): the id, or 0 for None
cache_get(cache, key) ==
  IF \E i \in DOMAIN cache : cache[i].key = key
  THEN (CHOOSE e \in Range(cache) : e.key = key).id
  ELSE 0

\* seeded fault: a hit leaves the order of the cache as it is
move_to_end_not(cache, key) == cache

\* assistant.py:507  move_to_end(prompt_key)
move_to_end(cache, key) ==
  SelectSeq(cache, LAMBDA e : e.key # key) \o SelectSeq(cache, LAMBDA e : e.key = key)

\* assistant.py:573-575  _assistant_cache[prompt_key] = new_id (an existing key keeps its
\* place), then the oldest item is dropped when the cache is over its capacity
cache_put(cache, key, id) ==
  LET c == IF \E i \in DOMAIN cache : cache[i].key = key
           THEN [i \in DOMAIN cache |->
                   IF cache[i].key = key THEN [key |-> key, id |-> id] ELSE cache[i]]
           ELSE Append(cache, [key |-> key, id |-> id])
  IN  IF Len(c) > LruCapacity THEN Tail(c) ELSE c

\* the history of uses after key is looked up with a hit or inserted
Use(recency, key) == SelectSeq(recency, LAMBDA k : k # key) \o <<key>>

\* assistant.py:443-457  _is_tool_compatible
assistant_is_tool_compatible(type) == type \in RegisteredTypes /\ type \in ToolTypes

\* assistant.py:471-491  one entry of settings.tools
normalize_tool_ok(t) ==
  /\ t.name # ""
  /\ t.type # ""
  /\ assistant_is_tool_compatible(t.type)
  /\ t.settings = "valid"

\* seeded fault: a name may occur twice
normalize_agent_tools_ok_dup(g) ==
  \A i \in DOMAIN g.nodes :
    is_agent(g.nodes[i].type) =>
      \A j \in DOMAIN g.nodes[i].tools : normalize_tool_ok(g.nodes[i].tools[j])

\* assistant.py:460-496  _normalize_agent_tools raises for an agent node with a tool entry
\* that fails or with a tool name that occurs twice; FALSE stands for the ValueError
normalize_agent_tools_ok(g) ==
  \A i \in DOMAIN g.nodes :
    is_agent(g.nodes[i].type) =>
      LET tools == g.nodes[i].tools
      IN  /\ \A j \in DOMAIN tools : normalize_tool_ok(tools[j])
          /\ \A j, k \in DOMAIN tools : j # k => tools[j].name # tools[k].name

\* the calls that have returned or raised
Returned(calls) == {h \in DOMAIN calls : calls[h].pc \in {"done", "failed"}}

\* assistant.py:499-511  the call is made with a prompt: an empty key raises; under the
\* lock, a cached id is moved to the end of the cache and returned with cached = True;
\* otherwise the graph and the summary are requested from the model
assistant_lookup(h, prompt) ==
  /\ assistant.calls[h].pc = "idle"
  /\ h > 1 => assistant.calls[h - 1].pc # "idle"
  /\ LET key == prompt_key(prompt)
         id  == cache_get(assistant.cache, key)
         c   == [IdleCall EXCEPT !.prompt = prompt, !.after = Returned(assistant.calls)]
     IN  assistant' =
           IF key = <<>>
             THEN [assistant EXCEPT !.calls[h] = [c EXCEPT !.pc = "failed"]]
           ELSE IF id # 0
             THEN [assistant EXCEPT
                    !.cache = move_to_end(@, key),
                    !.recency = Use(@, key),
                    !.calls[h] = [c EXCEPT !.pc = "done", !.id = id, !.cached = TRUE,
                                           !.hit = TRUE]]
           ELSE [assistant EXCEPT !.calls[h] = [c EXCEPT !.pc = "generating"]]
  /\ UNCHANGED <<workflows, runs, node_runs, logs, tasks, invoked, raised, tg, tres,
                 stream, poll, agent>>

\* assistant.py:545-569  the model has answered with graph g: it is validated
\* (Graph.model_validate, _normalize_agent_tools; a failure raises) and inserted
assistant_persist(h, g) ==
  /\ assistant.calls[h].pc = "generating"
  /\ IF ValidGraph(g) /\ normalize_agent_tools_ok(g)
     THEN /\ workflows' = Append(workflows, NormalizedGraph(g))
          /\ assistant' = [assistant EXCEPT
               !.calls[h] = [@ EXCEPT !.pc = "persisted", !.id = Len(workflows) + 1,
                                      !.inserted = TRUE]]
     ELSE /\ UNCHANGED workflows
          /\ assistant' = [assistant EXCEPT !.calls[h] = [@ EXCEPT !.pc = "failed"]]
  /\ UNCHANGED <<runs, node_runs, logs, tasks, invoked, raised, tg, tres,
                 stream, poll, agent>>

\* assistant.py:572-577  under the lock, the new id is cached under the key; the call
\* returns (new_id, False)
assistant_store(h) ==
  /\ assistant.calls[h].pc = "persisted"
  /\ assistant' = [assistant EXCEPT
       !.cache = cache_put(@, prompt_key(assistant.calls[h].prompt), assistant.calls[h].id),
       !.recency = IF cache_get(assistant.cache, prompt_key(assistant.calls[h].prompt)) = 0
                   THEN Use(@, prompt_key(assistant.calls[h].prompt))
                   ELSE @,
       !.calls[h] = [@ EXCEPT !.pc = "done"]]
  /\ UNCHANGED <<workflows, runs, node_runs, logs, tasks, invoked, raised, tg, tres,
                 stream, poll, agent>>

\* the graphs the model answers with: one that passes validation, and one with an edge
\* to a node that does not exist
GeneratedGraphs ==
  {[nodes |-> <<WriteNode(1, "start", "valid", <<>>)>>, edges |-> <<>>],
   [nodes |-> <<WriteNode(1, "start", "valid", <<>>)>>,
    edges |-> <<[from |-> 1, to |-> 2, kind |-> "control"]>>]}

\* no workflow stored, the cache empty, and MaxCalls calls to come
InitAssistant ==
  /\ workflows = <<>>
  /\ runs = <<>>
  /\ node_runs = [r \in RunIds |-> <<>>]
  /\ logs = <<>>
  /\ tasks = [r \in RunIds |-> IdleTask]
  /\ invoked = [r \in RunIds |-> <<>>]
  /\ raised = [r \in RunIds |-> NoNode]
  /\ tg = EmptyGraph
  /\ tres = NoResponse
  /\ NoReaders
  /\ NoCalls

NextAssistant ==
  \/ \E h \in 1..MaxCalls, prompt \in Prompts : assistant_lookup(h, prompt)
  \/ \E h \in 1..MaxCalls, g \in GeneratedGraphs : assistant_persist(h, g)
  \/ \E h \in 1..MaxCalls : assistant_store(h)

SpecAssistant == InitAssistant /\ [][NextAssistant]_vars

\* ------------------------------- the prompt cache after earlier assistant calls
\* prompts with three different keys, one of them with surrounding blanks
CachePrompts == {<<"a">>, <<" ", "a">>, <<"b">>, <<"c">>}

\* the state after up to LruCapacity earlier calls with different prompts, one after the
\* other: each has inserted a workflow and cached its id
InitCache ==
  /\ \E k \in 0..LruCapacity :
       \E ks \in [1..k -> {prompt_key(q) : q \in CachePrompts}] :
         /\ \A i, j \in 1..k : ks[i] = ks[j] => i = j
         /\ workflows = [i \in 1..k |-> [nodes |-> <<WriteNode(1, "start", "valid", <<>>)>>,
                                         edges |-> <<>>]]
         /\ assistant = [NoAssistant EXCEPT
                           !.cache = [i \in 1..k |-> [key |-> ks[i], id |-> i]],
                           !.recency = ks]
  /\ runs = <<>>
  /\ node_runs = [r \in RunIds |-> <<>>]
  /\ logs = <<>>
  /\ tasks = [r \in RunIds |-> IdleTask]
  /\ invoked = [r \in RunIds |-> <<>>]
  /\ raised = [r \in RunIds |-> NoNode]
  /\ tg = EmptyGraph
  /\ tres = NoResponse
  /\ NoReaders
  /\ agent = NoAgent

NextCache ==
  \/ \E h \in 1..MaxCalls, prompt \in CachePrompts : assistant_lookup(h, prompt)
  \/ \E h \in 1..MaxCalls, g \in GeneratedGraphs : assistant_persist(h, g)
  \/ \E h \in 1..MaxCalls : assistant_store(h)

SpecCache == InitCache /\ [][NextCache]_vars

\* ------------------ the three ways a graph is persisted, on one graph with agent tools
\* entries of settings.tools: two that pass, and one each with an empty name, an
\* unregistered type, a registered type that is not tool-compatible, invalid settings
PersistToolEntries ==
  {[name |-> "a", type |-> "tool.calculator", settings |-> "valid"],
   [name |-> "b", type |-> "tool.calculator", settings |-> "valid"],
   [name |-> "",  type |-> "tool.calculator", settings |-> "valid"],
   [name |-> "a", type |-> UnknownType, settings |-> "valid"],
   [name |-> "a", type |-> "start", settings |-> "valid"],
   [name |-> "a", type |-> "tool.calculator", settings |-> "invalid"]}

\* a start node, or an agent node with at most PersistTools tools
PersistOptions ==
  [type : {"start"}, tools : {<<>>}] \cup
  [type : {AgentType}, tools : UNION {[1..n -> PersistToolEntries] : n \in 0..PersistTools}]

\* one stored workflow (the empty graph); tg is the graph of the request body and the
\* graph the model generates for the assistant: at most PersistNodes nodes, no edges
InitPersist ==
  /\ workflows = <<EmptyGraph>>
  /\ runs = <<>>
  /\ node_runs = [r \in RunIds |-> <<>>]
  /\ logs = <<>>
  /\ tasks = [r \in RunIds |-> IdleTask]
  /\ invoked = [r \in RunIds |-> <<>>]
  /\ raised = [r \in RunIds |-> NoNode]
  /\ \E k \in 0..PersistNodes :
       \E f \in [1..k -> PersistOptions] :
         tg = [nodes |-> [i \in 1..k |-> WriteNode(i, f[i].type, "valid", f[i].tools)],
               edges |-> <<>>]
  /\ tres = NoResponse
  /\ NoReaders
  /\ NoCalls

\* POST /workflows or PUT /workflows/{id} with body tg, and one call of the assistant for
\* which the model generates tg
NextPersist ==
  \/ create_workflow
  \/ \E w \in DOMAIN workflows : update_workflow(w)
  \/ assistant_lookup(1, <<"a">>)
  \/ assistant_persist(1, tg)
  \/ assistant_store(1)

SpecPersist == InitPersist /\ [][NextPersist]_vars

\* ------------------------------------- triggers with payloads, concurrent runs
\* executor.py:19-118  one step of the background task of run r
execute_run(r) ==
  \/ executor_step(r)
  \/ block_returns(r)
  \/ block_raises(r)

InitTrigger == InitWith(TrigNodes, TrigEdges)

\* api.py:373-391, 528-537  POST /workflows/{id}/run and POST /hooks/{slug} call
\* create_and_start_run with the payload of the request
NextTrigger ==
  \/ \E w \in DOMAIN workflows, p \in Payloads : create_and_start_run(w, p)
  \/ \E r \in RunIds : execute_run(r)

SpecTrigger == InitTrigger /\ [][NextTrigger]_vars

\* ------------------------------------------------------------------ claims
Terminal == {"succeeded", "failed"}

\* the control edges of a graph, as pairs
ControlPairs(g) ==
  {<<g.edges[i].from, g.edges[i].to>> : i \in {j \in DOMAIN g.edges : g.edges[j].kind = "control"}}

RECURSIVE Closure(_, _)
Closure(pairs, S) ==
  LET T == S \cup {p[2] : p \in {q \in pairs : q[1] \in S}}
  IN  IF T = S THEN S ELSE Closure(pairs, T)

\* the nodes reachable from n by one or more control edges
Descendants(g, n) == Closure(ControlPairs(g), {p[2] : p \in {q \in ControlPairs(g) : q[1] = n}})

AcyclicControl(g) == \A n \in NodeIds(g) : n \notin Descendants(g, n)

Pos(s, x) == CHOOSE i \in DOMAIN s : s[i] = x

IsTopoOrder(g, ord) ==
  /\ Len(ord) = Cardinality(NodeIds(g))
  /\ Range(ord) = NodeIds(g)
  /\ \A p \in ControlPairs(g) : Pos(ord, p[1]) < Pos(ord, p[2])

\* the roots of the control subgraph and everything reachable from them
ControlSubgraphNodes(g) ==
  LET roots == {n \in NodeIds(g) : \A p \in ControlPairs(g) : p[2] # n}
  IN  Closure(ControlPairs(g), roots)

\* C1: once the block of a node has raised, no node later in the order has a NodeRun or
\* an invoked block, the run is never succeeded, and when execute_run has ended the run
\* is failed.
C1_FailStop ==
  \A r \in DOMAIN runs :
    raised[r] # NoNode =>
      LET ord == tasks[r].order
          k == Pos(ord, raised[r])
      IN  /\ \A j \in (k + 1)..Len(ord) :
                /\ \A i \in DOMAIN node_runs[r] : node_runs[r][i].node_id # ord[j]
                /\ \A i \in DOMAIN invoked[r] : invoked[r][i] # ord[j]
          /\ invoked[r][Len(invoked[r])] = raised[r]
          /\ runs[r].status # "succeeded"
          /\ tasks[r].pc = "done" => runs[r].status = "failed"

C1_Witness ==
  \E r \in DOMAIN runs :
    /\ raised[r] # NoNode
    /\ tasks[r].pc = "done"
    /\ runs[r].status = "failed"
    /\ \E j \in DOMAIN tasks[r].order :
         /\ j > Pos(tasks[r].order, raised[r])
         /\ ~IsToolNode(NodeOf(tasks[r].graph, tasks[r].order[j]))

\* C2: a run is created pending and its status only ever moves pending -> running,
\* running -> succeeded, running -> failed; succeeded and failed are never left.
C2_RunStatusMachine ==
  [][\A r \in DOMAIN runs' :
       IF r \in DOMAIN runs
       THEN \/ runs'[r].status = runs[r].status
            \/ <<runs[r].status, runs'[r].status>> \in
                 {<<"pending", "running">>, <<"running", "succeeded">>, <<"running", "failed">>}
       ELSE runs'[r].status = "pending"]_vars

C2_Witness ==
  \E r1, r2 \in DOMAIN runs :
    /\ runs[r1].status = "succeeded" /\ tasks[r1].pc = "done"
    /\ runs[r2].status = "failed" /\ tasks[r2].pc = "done"

\* C3: for a graph whose control edges are acyclic, toposort returns every node id exactly
\* once, each control edge's source before its target.
C3_ToposortCorrect ==
  (tres.set /\ AcyclicControl(tg)) => (tres.ok /\ IsTopoOrder(tg, tres.order))

C3_Witness ==
  /\ tres.set
  /\ AcyclicControl(tg)
  /\ Len(tg.nodes) = 3
  /\ Cardinality(ControlPairs(tg)) >= 2
  /\ tres.order = <<3, 2, 1>>

C5_AllNodesHaveOutput ==
  \A r \in DOMAIN runs :
    runs[r].status = "succeeded" =>
      \A n \in ControlSubgraphNodes(tasks[r].graph) : n \in DOMAIN runs[r].outputs_json

\* C5 amended: a succeeded run has an output for every node of the control subgraph whose
\* type does not begin with "tool." (and for no other node).
C5_NonToolNodesHaveOutput ==
  \A r \in DOMAIN runs :
    runs[r].status = "succeeded" =>
      /\ ~runs[r].outputs_null
      /\ DOMAIN runs[r].outputs_json =
           {n \in ControlSubgraphNodes(tasks[r].graph) :
              NodeOf(tasks[r].graph, n).type \notin ToolTypes}

C5_Witness ==
  \E r \in DOMAIN runs :
    /\ runs[r].status = "succeeded"
    /\ DOMAIN runs[r].outputs_json # {}
    /\ \E n \in NodeIds(tasks[r].graph) : NodeOf(tasks[r].graph, n).type \in ToolTypes

\* C6: the NodeRun rows of a run, by started_at, are a topological order of the control
\* edges among the executed nodes.
C6_NodeRunsTopological ==
  \A r \in RunIds :
    \A i, j \in DOMAIN node_runs[r] :
      <<node_runs[r][i].node_id, node_runs[r][j].node_id>> \in ControlPairs(tasks[r].graph)
        => node_runs[r][i].started_at < node_runs[r][j].started_at

C6_Witness ==
  \E r \in RunIds :
    /\ Len(node_runs[r]) = 2
    /\ node_runs[r][1].node_id = 2
    /\ node_runs[r][2].node_id = 1
    /\ <<2, 1>> \in ControlPairs(tasks[r].graph)

\* C7: within a run log ids increase strictly in append order, and when the NodeRun of a
\* finished before the NodeRun of b started, every log of a has a smaller id than every
\* log of b.
C7_LogOrder ==
  /\ \A i, j \in DOMAIN logs :
       (i < j /\ logs[i].run_id = logs[j].run_id) => logs[i].id < logs[j].id
  /\ \A r \in RunIds :
       \A x, y \in Range(node_runs[r]) :
         (x.finished_at # Null /\ x.finished_at < y.started_at) =>
           \A i, j \in DOMAIN logs :
             (/\ logs[i].run_id = r /\ logs[i].node_id = x.node_id
              /\ logs[j].run_id = r /\ logs[j].node_id = y.node_id) => logs[i].id < logs[j].id

C7_Witness ==
  \E r \in RunIds :
    /\ Len(node_runs[r]) = 2
    /\ node_runs[r][1].finished_at # Null
    /\ node_runs[r][1].finished_at < node_runs[r][2].started_at
    /\ \E i, j \in DOMAIN logs :
         /\ logs[i].run_id = r /\ logs[i].node_id = node_runs[r][1].node_id
         /\ logs[j].run_id = r /\ logs[j].node_id = node_runs[r][2].node_id
    /\ \E i \in DOMAIN logs : logs[i].run_id # r /\ i < Len(logs)

\* C8: a run has at most one running NodeRun; every NodeRun reached its terminal status
\* before the next one was created; while a block executes its NodeRun is running.
C8_Sequential ==
  \A r \in RunIds :
    /\ Cardinality({i \in DOMAIN node_runs[r] : node_runs[r][i].status = "running"}) <= 1
    /\ \A i, j \in DOMAIN node_runs[r] :
         i < j => /\ node_runs[r][i].status \in Terminal
                  /\ node_runs[r][i].finished_at # Null
                  /\ node_runs[r][i].finished_at < node_runs[r][j].started_at
    /\ tasks[r].pc = "block" =>
         \E i \in DOMAIN node_runs[r] :
           /\ node_runs[r][i].node_id = CurNode(tasks[r]).id
           /\ node_runs[r][i].status = "running"

C8_Witness ==
  \E r \in RunIds :
    /\ tasks[r].pc = "block"
    /\ Len(node_runs[r]) = 2
    /\ node_runs[r][1].status = "succeeded"
    /\ node_runs[r][2].status = "running"

\* C9: get_run reports the node whose block is executing, and no node when none is, in
\* particular for a succeeded or failed run.
C9_CurrentNode ==
  \A r \in DOMAIN runs :
    /\ get_run_current_node_id(r) =
         IF tasks[r].pc = "block" THEN CurNode(tasks[r]).id ELSE NoNode
    /\ runs[r].status \in Terminal => get_run_current_node_id(r) = NoNode

C9_Witness ==
  \E r \in DOMAIN runs :
    /\ tasks[r].pc = "block"
    /\ Len(node_runs[r]) = 2
    /\ node_runs[r][1].finished_at # Null
    /\ get_run_current_node_id(r) = node_runs[r][2].node_id

\* C10 as stated: when execute_run has ended, however it ended, the run it had marked
\* running is succeeded or failed.
C10_EndsTerminal ==
  \A r \in DOMAIN runs :
    tasks[r].pc \in {"done", "crashed"} => runs[r].status \in Terminal

\* C11 as stated: the nodes a run executes, and their order, are those of the graph the
\* workflow had when the Run row was created, whatever PUT /workflows stored since.
C11_GraphAtDispatch ==
  \A r \in DOMAIN runs :
    tasks[r].pc \in {"loop", "mark", "block", "finlog", "errlog", "except", "done"} =>
      /\ tasks[r].graph = tasks[r].at_dispatch
      /\ tasks[r].order = Toposort(tasks[r].at_dispatch).order

\* some node is reachable from itself by control edges (a self-loop included)
HasControlCycle(g) == \E p \in ControlPairs(g) : p[1] \in Descendants(g, p[1])

HasDuplicateId(g) == \E i, j \in DOMAIN g.nodes : i # j /\ g.nodes[i].id = g.nodes[j].id

\* an edge, of either kind, one of whose ends is the id of no node
HasDanglingEdge(g) ==
  \E i \in DOMAIN g.edges :
    \/ \A j \in DOMAIN g.nodes : g.nodes[j].id # g.edges[i].from
    \/ \A j \in DOMAIN g.nodes : g.nodes[j].id # g.edges[i].to

\* the workflows table as it was before the request
StoredBeforeRequest == <<EmptyGraph>>

\* C12: POST /workflows, PUT /workflows/{id} and POST /validate-graph answer a graph whose
\* control edges contain a cycle (a self-loop included) with an error, and the workflows
\* table is left as it was.
C12_ControlCycleRejected ==
  (tres.set /\ HasControlCycle(tg)) => (~tres.ok /\ workflows = StoredBeforeRequest)

C12_Witness ==
  /\ tres.set
  /\ tres.op = "update"
  /\ ~tres.ok
  /\ ~HasDuplicateId(tg)
  /\ ~HasDanglingEdge(tg)
  /\ HasControlCycle(tg)
  /\ \A p \in ControlPairs(tg) : p[1] # p[2]

\* C14: validation fails for every graph in which two nodes share an id or in which an
\* edge of either kind has a from or to that is the id of no node.
C14_BadIdsRejected ==
  (tres.set /\ (HasDuplicateId(tg) \/ HasDanglingEdge(tg))) =>
    (~tres.ok /\ workflows = StoredBeforeRequest)

C14_Witness ==
  /\ tres.set
  /\ ~tres.ok
  /\ ~HasDuplicateId(tg)
  /\ ~HasControlCycle(tg)
  /\ Len(tg.edges) = 1
  /\ tg.edges[1].kind = "tool"
  /\ HasDanglingEdge(tg)

\* a node whose type no block registers, or whose settings violate the schema of its type
HasUnregisteredOrInvalidNode(g) ==
  \E i \in DOMAIN g.nodes :
    g.nodes[i].type \notin RegisteredTypes \/ g.nodes[i].settings = "invalid"

\* an agent node listing a tool whose type no block registers or whose settings violate
\* the settings model of the tool's type
HasBadAgentTool(g) ==
  \E i \in DOMAIN g.nodes :
    /\ g.nodes[i].type = AgentType
    /\ \E j \in DOMAIN g.nodes[i].tools :
         \/ g.nodes[i].tools[j].type \notin RegisteredTypes
         \/ g.nodes[i].tools[j].settings = "invalid"

\* C15 as stated: the write endpoints and POST /validate-graph fail for every graph with a
\* node of an unregistered type or with settings that violate the schema of its type, and
\* no stored workflow has such a node.
C15_UnknownTypeRejected ==
  /\ (tres.set /\ HasUnregisteredOrInvalidNode(tg)) => ~tres.ok
  /\ \A w \in DOMAIN workflows : ~HasUnregisteredOrInvalidNode(workflows[w])

\* C15 amended: POST /workflows and PUT /workflows/{id} fail, and store nothing, for every
\* graph in which an agent node lists a tool of an unregistered type or with settings that
\* violate the settings model of the tool's type; the types and settings of the nodes
\* themselves decide nothing: a graph of unique ids, existing endpoints and no control
\* cycle in which no agent lists a tool is accepted by the three endpoints.
C15_AgentToolsChecked ==
  /\ (tres.set /\ tres.op \in {"create", "update"} /\ HasBadAgentTool(tg)) =>
       (~tres.ok /\ workflows = StoredBeforeRequest)
  /\ (/\ tres.set
      /\ ~HasDuplicateId(tg) /\ ~HasDanglingEdge(tg) /\ ~HasControlCycle(tg)
      /\ \A i \in DOMAIN tg.nodes : tg.nodes[i].tools = <<>>) => tres.ok

C15_Witness ==
  /\ tres.set
  /\ tres.op = "create"
  /\ ~tres.ok
  /\ Len(tg.nodes) = 2
  /\ tg.nodes[1].type = UnknownType
  /\ tg.nodes[2].type = AgentType
  /\ Len(tg.nodes[2].tools) = 1
  /\ tg.nodes[2].tools[1].type = UnknownType
  /\ tg.nodes[2].tools[1].settings = "valid"

\* the graph without its tool edges
StripToolEdges(g) ==
  [nodes |-> g.nodes, edges |-> SelectSeq(g.edges, LAMBDA e : e.kind = "control")]

\* the edges of either kind, as pairs
AllPairs(g) == {<<g.edges[i].from, g.edges[i].to>> : i \in DOMAIN g.edges}

\* some cycle of the graph goes through a tool edge
HasCycleThroughToolEdge(g) ==
  \E i \in DOMAIN g.edges :
    /\ g.edges[i].kind = "tool"
    /\ g.edges[i].from \in Closure(AllPairs(g), {g.edges[i].to})

\* C13: tool edges decide neither the acceptance of a graph nor its order: a graph is
\* accepted exactly when its control edges are acyclic, whatever cycles go through tool
\* edges, and its order is the order of the same graph without the tool edges.
C13_ToolEdgesIgnored ==
  tres.set =>
    /\ tres.ok = AcyclicControl(tg)
    /\ tres.ok => tres.order = Toposort(StripToolEdges(tg)).order

C13_Witness ==
  /\ tres.set
  /\ tres.ok
  /\ HasCycleThroughToolEdge(tg)
  /\ ControlPairs(tg) # {}
  /\ \E i \in DOMAIN tg.edges :
       /\ tg.edges[i].kind = "tool"
       /\ Pos(tres.order, tg.edges[i].to) < Pos(tres.order, tg.edges[i].from)

\* the position of node n in graph.nodes
ListPos(g, n) == CHOOSE i \in DOMAIN g.nodes : g.nodes[i].id = n

\* the nodes not yet placed all of whose control parents are placed
Ready(g, placed) ==
  {n \in NodeIds(g) \ placed : \A p \in ControlPairs(g) : p[2] = n => p[1] \in placed}

\* C17 as stated: at every position of the order, the node placed is, of the nodes ready
\* at that point, the one that comes first in graph.nodes.
C17_TiesByListPosition ==
  (tres.set /\ tres.ok) =>
    \A i \in DOMAIN tres.order :
      \A m \in Ready(tg, {tres.order[j] : j \in 1..(i - 1)}) :
        ListPos(tg, tres.order[i]) <= ListPos(tg, m)

\* the nodes of the graph of run r that the main pass executes and whose type no block
\* registers
UnregisteredNodes(r) ==
  {n \in NodeIds(tasks[r].graph) :
     LET node == NodeOf(tasks[r].graph, n)
     IN  node.type \notin RegisteredTypes /\ ~IsToolNode(node)}

LogsOf(r, n) == {i \in DOMAIN logs : logs[i].run_id = r /\ logs[i].node_id = n}

\* C18: a node whose type begins with "tool." has no NodeRun, its block is not invoked, it
\* has no entry in the outputs, its only trace is one log row saying it was skipped, and
\* the loop goes on behind it: the row is there as soon as the loop is past the node.
C18_ToolNodesSkipped ==
  \A r \in DOMAIN runs :
    \A n \in NodeIds(tasks[r].graph) :
      NodeOf(tasks[r].graph, n).type \in ToolTypes =>
        /\ \A i \in DOMAIN node_runs[r] : node_runs[r][i].node_id # n
        /\ n \notin Range(invoked[r])
        /\ n \notin DOMAIN tasks[r].outputs
        /\ n \notin DOMAIN runs[r].outputs_json
        /\ Cardinality(LogsOf(r, n)) <= 1
        /\ \A i \in LogsOf(r, n) : logs[i].message = "skip"
        /\ (tasks[r].order # <<>> /\ Pos(tasks[r].order, n) < tasks[r].idx) =>
             Cardinality(LogsOf(r, n)) = 1
        /\ runs[r].status = "succeeded" => Cardinality(LogsOf(r, n)) = 1

C18_Witness ==
  \E r \in DOMAIN runs :
    /\ runs[r].status = "succeeded"
    /\ Len(tasks[r].order) = 3
    /\ NodeOf(tasks[r].graph, tasks[r].order[2]).type \in ToolTypes
    /\ Cardinality(LogsOf(r, tasks[r].order[2])) = 1
    /\ Len(node_runs[r]) = 2
    /\ node_runs[r][2].node_id = tasks[r].order[3]

\* C19: within a run the block of a node is invoked at most once, and the node has at
\* most one NodeRun, whether the block returned or raised.
C19_NoRetry ==
  \A r \in RunIds :
    /\ \A i, j \in DOMAIN invoked[r] : i # j => invoked[r][i] # invoked[r][j]
    /\ \A i, j \in DOMAIN node_runs[r] : i # j => node_runs[r][i].node_id # node_runs[r][j].node_id

C19_Witness ==
  \E r \in RunIds :
    /\ tasks[r].pc = "done"
    /\ raised[r] # NoNode
    /\ Len(invoked[r]) = 2
    /\ invoked[r][2] = raised[r]

\* C20 as stated: a block that is executing cannot keep the run in running for ever: the
\* deadline ends the invocation and the run becomes failed (or the block ends by itself).
C20_DeadlineEndsRun ==
  \A r \in RunIds :
    (tasks[r].pc = "block") ~> (r \in DOMAIN runs /\ runs[r].status \in Terminal)

\* the status events a stream has emitted, in order
StatusEvents(ev) == SelectSeq(ev, LAMBDA e : e.type = "status")

\* C21: the run log stream has ended if and only if it has observed the run in status
\* succeeded or failed (or found no run): then the status event carrying that status is
\* the last event it emitted and is its only terminal status event, and the run is in
\* that status; a stream never ends while its run is pending or running.
C21_StreamEndsOnTerminal ==
  LET st == StatusEvents(stream.events)
      observed == \E i \in DOMAIN st : st[i].status \in Terminal \cup {"not_found"}
  IN  /\ (stream.pc = "ended") <=> observed
      /\ stream.pc = "ended" =>
           /\ stream.events[Len(stream.events)] = st[Len(st)]
           /\ st[Len(st)].status \in Terminal \cup {"not_found"}
           /\ \A i \in 1..(Len(st) - 1) : st[i].status \notin Terminal \cup {"not_found"}
           /\ IF stream.run \in DOMAIN runs
              THEN /\ runs[stream.run].status = st[Len(st)].status
                   /\ runs[stream.run].status \notin {"pending", "running"}
              ELSE st[Len(st)].status = "not_found"

\* a stream that reported the run running, then ended on its terminal status
C21_Witness ==
  LET st == StatusEvents(stream.events)
  IN  /\ stream.pc = "ended"
      /\ Len(st) >= 2
      /\ st[1].status \in {"pending", "running"}
      /\ st[Len(st)].status = "failed"
      /\ \E i \in DOMAIN stream.events : stream.events[i].type = "log"

\* the ids of the log entries of run r
LogIdsOf(r) == {row.id : row \in {x \in Range(logs) : x.run_id = r}}

\* C22: a response of GET /runs/{id}/logs?after_id=N holds only entries of the run with
\* id > N; a client that passes the largest id it has received holds every entry of the
\* run up to its cursor exactly once, and all entries once it has polled a terminal run;
\* a poll of a terminal run with the largest id of the run returns the empty list.
C22_AfterIdCursor ==
  poll.code = "200" =>
    LET all == LogIdsOf(poll.run)
        got == Range(poll.received)
    IN  /\ \A i \in DOMAIN poll.last :
             poll.last[i] \in all /\ (poll.after # NoCursor => poll.last[i] > poll.after)
        /\ \A i, j \in DOMAIN poll.received :
             i # j => poll.received[i] # poll.received[j]
        /\ got = {id \in all : poll.cursor # NoCursor /\ id <= poll.cursor}
        /\ poll.at_terminal => got = all
        /\ (poll.at_terminal /\ all # {} /\ \A id \in all : id <= poll.after)
             => poll.last = <<>>

\* the client polled while the run was running and got entries, and later polled the
\* terminal run with the largest id and got the empty list
C22_Witness ==
  /\ poll.code = "200"
  /\ poll.at_terminal
  /\ Len(poll.received) >= 3
  /\ poll.after = poll.cursor
  /\ poll.after # NoCursor
  /\ poll.last = <<>>

\* C23: when the block of a node has raised and the run is marked failed, the NodeRun of
\* that node holds the error and the log has an entry of level error for that node with
\* the message "Node <id> failed: <msg>".
C23_FailureLoggedAsError ==
  \A r \in DOMAIN runs :
    (raised[r] # NoNode /\ runs[r].status = "failed") =>
      /\ \E nr \in Range(node_runs[r]) : nr.node_id = raised[r] /\ nr.has_error
      /\ \E row \in Range(logs) :
           /\ row.run_id = r
           /\ row.node_id = raised[r]
           /\ row.message = "failed"
           /\ row.level = "error"

\* no reply of the model held a final answer
NoFinalReply == \A i \in DOMAIN agent.replies : agent.replies[i].kind # "final"

\* C24: the internal ReAct loop asks the model at most max_steps times, and when it has
\* ended without a reply that held a final answer, it has returned (not raised) final =
\* "Failed to reach a final answer within max_steps." with a trace that has an entry for
\* each step taken.
C24_ExhaustionReturnsTrace ==
  /\ agent.asked <= agent.max_steps
  /\ (agent.via = "react" /\ agent.pc \in {"returned", "raised"} /\ NoFinalReply) =>
       /\ agent.pc = "returned"
       /\ agent.final = FailedFinal
       /\ \A k \in 1..agent.asked : \E i \in DOMAIN agent.trace : agent.trace[i].step = k

\* the names of the local tools attached to the agent
LocalToolNames == {t.name : t \in {x \in agent.tools : x.type # "tool.composio"}}

\* C25: in the internal ReAct loop, for the reply of step i that names a tool matching
\* none of the agent's tools: no block was invoked in step i, the transcript got the
\* observation "Observation: Unknown tool <name>" in step i, and the loop went on to step
\* i + 1, the step counting toward max_steps (the loop did not end in step i).
C25_UnknownToolObserved ==
  \A i \in DOMAIN agent.replies :
    (agent.replies[i].kind = "action" /\ agent.replies[i].tool \notin LocalToolNames) =>
      /\ \A c \in DOMAIN agent.calls : agent.calls[c].step # i
      /\ \E m \in DOMAIN agent.transcript :
           agent.transcript[m] = Message(i, "Observation: Unknown tool", agent.replies[i].tool)
      /\ agent.step > i
      /\ i <= agent.max_steps
      /\ agent.asked <= agent.max_steps
      /\ i = Len(agent.replies) =>
           \/ agent.pc = "react"
           \/ agent.pc = "returned" /\ agent.final = FailedFinal /\ i = agent.max_steps
           \/ agent.pc = "raised" /\ agent.error = "model"

\* the model named an unknown tool in step 1 and was asked again in step 2
C25_Witness ==
  /\ Len(agent.replies) = 2
  /\ agent.replies[1] = Reply("action", "nope")
  /\ agent.calls = <<>>
  /\ agent.asked = 2

\* C26: when the provider agent runtime (the Agents SDK) is unavailable and the prompt is
\* not empty, agent.react runs the internal ReAct loop, whatever tools are attached, and
\* does not fail for want of the runtime.
C26_FallbackForEveryToolSet ==
  (agent.prompt # "" /\ ~agent.sdk /\ agent.pc \notin {"none", "called"}) =>
    /\ agent.via = "react"
    /\ ~(agent.pc = "raised" /\ agent.error = "sdk")

\* the characters of a prompt that are not blanks at its ends: its first to its last
\* character that is not a blank
Trimmed(p) ==
  LET nb == {i \in DOMAIN p : p[i] # " "}
  IN  IF nb = {} THEN <<>>
      ELSE SubSeq(p, CHOOSE i \in nb : \A j \in nb : i <= j,
                     CHOOSE i \in nb : \A j \in nb : i >= j)

\* C28: when a call of create_workflow_from_prompt for a prompt has created workflow w and
\* returned, every call made later with the same prompt (after trimming) that finds the
\* prompt cached returns the id w with cached = true and inserts no Workflow row.
C28_IdempotentWhileCached ==
  \A i, j \in DOMAIN assistant.calls :
    LET ci == assistant.calls[i]
        cj == assistant.calls[j]
    IN  (/\ ci.pc = "done" /\ ci.inserted
         /\ i \in cj.after
         /\ Trimmed(ci.prompt) = Trimmed(cj.prompt)
         /\ cj.hit)
        => /\ cj.id = ci.id
           /\ cj.cached
           /\ ~cj.inserted

\* the tools of every agent node of g have pairwise distinct non-empty names, a registered
\* tool-compatible type and settings that pass the settings model of the type
AgentToolsWellFormed(g) ==
  \A i \in DOMAIN g.nodes :
    g.nodes[i].type = AgentType =>
      LET tools == g.nodes[i].tools
      IN  /\ \A j \in DOMAIN tools :
               /\ tools[j].name # ""
               /\ tools[j].type \in ToolTypes \cap RegisteredTypes
               /\ tools[j].settings = "valid"
          /\ \A j, k \in DOMAIN tools : j # k => tools[j].name # tools[k].name

\* C27: every workflow graph persisted through POST /workflows, PUT /workflows/{id} or the
\* assistant has, in every agent node, tools with pairwise distinct non-empty names,
\* registered tool-compatible types and valid settings; a request or an assistant call
\* with a graph violating this fails and the stored workflows stay as they were.
C27_PersistedAgentTools ==
  /\ \A w \in DOMAIN workflows : AgentToolsWellFormed(workflows[w])
  /\ ~AgentToolsWellFormed(tg) =>
       /\ workflows = StoredBeforeRequest
       /\ tres.set => ~tres.ok
       /\ assistant.calls[1].pc \in {"idle", "generating", "failed"}
       /\ assistant.cache = <<>>

\* an agent listing two tools of the same name was sent to POST or PUT and generated for
\* the assistant: both failed and nothing was stored
C27_Witness ==
  /\ \E i \in DOMAIN tg.nodes :
       /\ tg.nodes[i].type = AgentType
       /\ Len(tg.nodes[i].tools) = 2
       /\ tg.nodes[i].tools[1] = tg.nodes[i].tools[2]
       /\ tg.nodes[i].tools[1] = [name |-> "a", type |-> "tool.calculator", settings |-> "valid"]
  /\ tres.set /\ ~tres.ok
  /\ assistant.calls[1].pc = "failed"
  /\ workflows = StoredBeforeRequest

\* every node of the graph has type start: the graph is its own trivial variant
TrivialVariant(g) == \A i \in DOMAIN g.nodes : g.nodes[i].type = "start"

\* C29: for a graph whose nodes all have type start, the graph passes validation if and
\* only if its execution, once execute_run has ended, has left the run succeeded.
C29_ValidIffVariantSucceeds ==
  \A r \in DOMAIN runs :
    LET g == workflows[runs[r].workflow_id]
    IN  (tasks[r].pc \in {"done", "crashed"} /\ TrivialVariant(g)) =>
          (ValidGraph(g) <=> runs[r].status = "succeeded")

\* C30: when execute_run has ended, by whatever path, no HTTP client it created is still
\* open.
C30_HttpClientClosed ==
  \A r \in RunIds :
    tasks[r].pc \in {"done", "crashed"} => tasks[r].http # "open"


\* the log of one run as its readers see it: node and message of its rows, in id order
PerRunLogs(r) ==
  LET rows == SelectSeq(logs, LAMBDA l : l.run_id = r)
  IN  [i \in DOMAIN rows |-> <<rows[i].node_id, rows[i].message>>]

\* the log a run of graph g writes when it executes alone and every node succeeds
RECURSIVE SoloLogs(_, _)
SoloLogs(g, order) ==
  IF order = <<>> THEN <<>>
  ELSE LET n == Head(order)
       IN  (IF NodeOf(g, n).type \in ToolTypes
            THEN << <<n, "skip">> >>
            ELSE << <<n, "start">>, <<n, "finished">> >>) \o SoloLogs(g, Tail(order))

\* what the tables hold of run r
RunProjection(r) ==
  <<IF r \in DOMAIN runs THEN <<runs[r]>> ELSE <<>>, node_runs[r], PerRunLogs(r)>>

\* C31: concurrent runs are isolated: a step of another run's executor changes neither the
\* Run row, nor the NodeRuns, nor the log of a run; a run that succeeded has the outputs,
\* the NodeRuns and the log it has when it executes alone; every NodeRun and log entry
\* of a run names a node the run's own executor reached.
C31_RunsIsolated ==
  /\ [][\A r \in RunIds : tasks'[r] = tasks[r] => RunProjection(r)' = RunProjection(r)]_vars
  /\ [](\A r \in DOMAIN runs :
          /\ \A i \in DOMAIN PerRunLogs(r) :
               \E j \in DOMAIN tasks[r].order :
                 j <= tasks[r].idx /\ tasks[r].order[j] = PerRunLogs(r)[i][1]
          /\ \A i \in DOMAIN node_runs[r] : node_runs[r][i].node_id \in Range(invoked[r])
          /\ runs[r].status = "succeeded" =>
               /\ PerRunLogs(r) = SoloLogs(tasks[r].graph, tasks[r].order)
               /\ [i \in DOMAIN node_runs[r] |-> node_runs[r][i].node_id] =
                    SelectSeq(tasks[r].order,
                              LAMBDA n : NodeOf(tasks[r].graph, n).type \notin ToolTypes)
               /\ DOMAIN runs[r].outputs_json = Range(invoked[r]))
  /\ [](\A i \in DOMAIN logs : logs[i].run_id \in DOMAIN runs)

\* two runs whose executors interleaved: the rows of the second lie between rows of the first
C31_Witness ==
  /\ Len(runs) = 2
  /\ runs[1].status = "succeeded" /\ runs[2].status = "succeeded"
  /\ Len(node_runs[1]) = 2 /\ Len(node_runs[2]) = 2
  /\ \E i, j, k \in DOMAIN logs :
       /\ i < j /\ j < k
       /\ logs[i].run_id = 1 /\ logs[j].run_id = 2 /\ logs[k].run_id = 1

\* the nodes with a control edge to n
ControlParents(g, n) == {p \in NodeIds(g) : <<p, n>> \in ControlPairs(g)}

\* C32 as stated: the upstream map passed to a node's block holds exactly the outputs of the
\* node's control-edge parents that have an entry in outputs; a node linked to it only by a
\* tool edge is not a key of it.
C32_UpstreamControlParents ==
  \A r \in DOMAIN runs :
    tasks[r].pc = "block" =>
      /\ DOMAIN tasks[r].upstream =
           ControlParents(tasks[r].graph, CurNode(tasks[r]).id) \cap DOMAIN tasks[r].outputs
      /\ \A p \in DOMAIN tasks[r].upstream : tasks[r].upstream[p] = tasks[r].outputs[p]

\* the payload a run is to carry for the payload its trigger was given
GivenPayload(p) == IF p = NoPayload THEN EmptyPayload ELSE p

\* C33: a trigger inserts exactly one Run row, pending and with the given payload, and
\* dispatches exactly one execute_run for it, after the row is there; a Run row changes
\* only in a step of that executor, and the executor finds the row it was dispatched for.
C33_OneRunOneExecutor ==
  /\ [][/\ Len(runs') \in {Len(runs), Len(runs) + 1}
        /\ \A r \in RunIds :
             /\ (r \in DOMAIN runs' /\ r \notin DOMAIN runs) =>
                  /\ runs'[r].status = "pending"
                  /\ runs'[r].trigger_payload_json = GivenPayload(tasks'[r].payload)
                  /\ tasks[r].pc = "idle" /\ tasks'[r].pc = "dispatched"
                  /\ \A q \in RunIds \ {r} : tasks'[q] = tasks[q]
             /\ (tasks'[r].pc = "dispatched" /\ tasks[r].pc # "dispatched") =>
                  (r \in DOMAIN runs' /\ r \notin DOMAIN runs)
             /\ (r \in DOMAIN runs /\ runs'[r] # runs[r]) =>
                  (tasks[r].pc # "idle" /\ tasks'[r] # tasks[r])]_vars
  /\ [](\A r \in RunIds :
          /\ tasks[r].pc = "idle" <=> r \notin DOMAIN runs
          /\ tasks[r].pc = "dispatched" => (r \in DOMAIN runs /\ runs[r].status = "pending")
          /\ r \in DOMAIN runs =>
               runs[r].trigger_payload_json = GivenPayload(tasks[r].payload))

\* a second trigger while the executor of the first run is at work
C33_Witness ==
  /\ Len(runs) = 2
  /\ tasks[1].payload = "data" /\ runs[1].trigger_payload_json = "data"
  /\ tasks[1].pc = "block" /\ runs[1].status = "running"
  /\ tasks[2].payload = NoPayload /\ tasks[2].pc = "dispatched"

\* C34 as stated: a run has at most one NodeRun per node; a NodeRun is created running and
\* is updated exactly once, to succeeded or to failed, and never modified after that; the
\* update of one node leaves the NodeRuns of the other nodes as they are.
C34_NodeRunUpdatedOnce ==
  /\ [](\A r \in RunIds : \A i, j \in DOMAIN node_runs[r] :
          node_runs[r][i].node_id = node_runs[r][j].node_id => i = j)
  /\ [][\A r \in RunIds :
          /\ Len(node_runs'[r]) >= Len(node_runs[r])
          /\ \A i \in DOMAIN node_runs'[r] :
               IF i \in DOMAIN node_runs[r]
               THEN \/ node_runs'[r][i] = node_runs[r][i]
                    \/ /\ node_runs[r][i].status = "running"
                       /\ node_runs'[r][i].status \in {"succeeded", "failed"}
                       /\ \A j \in DOMAIN node_runs[r] \ {i} : node_runs'[r][j] = node_runs[r][j]
               ELSE node_runs'[r][i].status = "running"]_vars

\* the keys of the cache, oldest item first
CacheKeys(a) == [i \in DOMAIN a.cache |-> a.cache[i].key]

\* the cached key whose last use (insertion or hit) lies furthest back
LeastRecentlyUsed(a) ==
  LET cached == SelectSeq(a.recency, LAMBDA k : k \in Range(CacheKeys(a)))
  IN  Head(cached)

StreamedLogIds ==
  LET ev == SelectSeq(stream.events, LAMBDA e : e.type = "log")
  IN  [i \in DOMAIN ev |-> ev[i].id]

\* the ids of the log entries of run r, in id order
LogIdSeq(r) ==
  LET rows == SelectSeq(logs, LAMBDA l : l.run_id = r)
  IN  [i \in DOMAIN rows |-> rows[i].id]

\* C36 as stated: when the stream has emitted the terminal status of the run and ended, it
\* has emitted every log entry of the run, each once and in increasing id order (the
\* executor appends no entry after the terminal status).
C36_StreamComplete ==
  (stream.pc = "ended" /\ stream.run \in DOMAIN runs) =>
    StreamedLogIds = LogIdSeq(stream.run)

\* the status of the NodeRun of node n in run r, "none" without such a NodeRun
NodeRunStatus(r, n) ==
  IF \E i \in DOMAIN node_runs[r] : node_runs[r][i].node_id = n
  THEN (CHOOSE x \in Range(node_runs[r]) : x.node_id = n).status
  ELSE "none"

\* C37 as stated: a node_failed event for n is on the stream only if the NodeRun of n is
\* failed, a node_finished event only if it is succeeded; a node has at most one of the
\* two, after its node_started event; an entry a block logs while it runs gives no
\* node_failed event for a node that goes on to succeed.
C37_NodeEventsMatchNodeRuns ==
  stream.run \in DOMAIN runs =>
    \A i \in DOMAIN stream.events :
      LET e == stream.events[i]
      IN  e.type \in {"node_finished", "node_failed"} =>
            /\ tasks[stream.run].pc = "done" =>
                 NodeRunStatus(stream.run, e.node_id) =
                   (IF e.type = "node_failed" THEN "failed" ELSE "succeeded")
            /\ NodeRunStatus(stream.run, e.node_id) = "succeeded" => e.type = "node_finished"
            /\ \A j \in DOMAIN stream.events :
                 (/\ stream.events[j].type \in {"node_finished", "node_failed"}
                  /\ stream.events[j].node_id = e.node_id) => j = i
            /\ \E j \in 1..(i - 1) :
                 /\ stream.events[j].type = "node_started"
                 /\ stream.events[j].node_id = e.node_id

\* C38: while the log entry "Finished node n" of a run is there, the NodeRun of n is
\* succeeded; while the entry "Node n failed" is there, the NodeRun of n is failed; while a
\* run is succeeded, each of its NodeRuns is succeeded and has an entry in the outputs.
C38_LogsAgreeWithNodeRuns ==
  /\ \A i \in DOMAIN logs :
       /\ logs[i].message = "finished" =>
            \E x \in Range(node_runs[logs[i].run_id]) :
              x.node_id = logs[i].node_id /\ x.status = "succeeded"
       /\ logs[i].message = "failed" =>
            \E x \in Range(node_runs[logs[i].run_id]) :
              x.node_id = logs[i].node_id /\ x.status = "failed"
  /\ \A r \in DOMAIN runs :
       runs[r].status = "succeeded" =>
         \A x \in Range(node_runs[r]) :
           x.status = "succeeded" /\ x.node_id \in DOMAIN runs[r].outputs_json

\* a failed run with the entries of a node that finished and of the node that failed
C38_Witness ==
  \E r \in DOMAIN runs :
    /\ runs[r].status = "failed"
    /\ Len(node_runs[r]) = 2
    /\ \E i, j \in DOMAIN logs :
         /\ logs[i].run_id = r /\ logs[i].message = "finished"
         /\ logs[i].node_id = node_runs[r][1].node_id
         /\ logs[j].run_id = r /\ logs[j].message = "failed"
         /\ logs[j].node_id = node_runs[r][2].node_id

\* C39 as stated: of the calls of create_workflow_from_prompt that overlap in time and
\* carry the same prompt, at most one inserts a Workflow row, and those that have returned
\* have returned the same workflow id.
C39_OneWorkflowPerPrompt ==
  \A i, j \in DOMAIN assistant.calls :
    LET ci == assistant.calls[i]
        cj == assistant.calls[j]
    IN  (/\ i # j
         /\ ci.pc # "idle" /\ cj.pc # "idle"
         /\ i \notin cj.after /\ j \notin ci.after
         /\ Trimmed(ci.prompt) = Trimmed(cj.prompt))
        => /\ ~(ci.inserted /\ cj.inserted)
           /\ (ci.pc = "done" /\ cj.pc = "done") => ci.id = cj.id
====
